---- MODULE Spec2Model ----
(***************************************************************************)
(* Model of the codex multi-account switch plugin: the account rotation    *)
(* system (health scores, token buckets, selectors), the AccountManager    *)
(* and the retry loop of the custom fetch.                                 *)
(*                                                                         *)
(* Units.  The clock `now` is Date.now() in whole seconds; every program   *)
(* constant that is a duration is a whole number of seconds.  Token        *)
(* counts are kept in tenths of a token (TokenScale) because the bucket    *)
(* regenerates 0.1 token per second, and hybrid scores are kept in tenths  *)
(* of a point (ScoreScale) because freshness is worth 0.1 point per        *)
(* second.  With these scales all arithmetic of the source is exact.       *)
(***************************************************************************)
EXTENDS Integers, Sequences, FiniteSets, TLC

VARIABLES
    now,            \* Date.now(), seconds
    strategy,       \* AccountManager.strategy
    accounts,       \* AccountManager.accounts (index i is position i + 1)
    activeIndex,    \* AccountManager.activeIndex (NULL or an index)
    scores,         \* HealthScoreTracker.scores : index -> HealthState
    buckets,        \* TokenBucketTracker.buckets : index -> TokenBucketState
    saveTimer,      \* AccountManager.saveTimer: 0, or the time the armed timer is due
    disk,           \* the storage file: [accounts, activeIndex]
    ticks,          \* number of clock advances so far
    req,            \* the fetch invocations: request -> locals of the retry loop
    metrics,        \* selector harness: the AccountMetrics[] argument
    currentIndex,   \* selector harness: the currentIndex argument
    selected,       \* selector harness: the value returned (PENDING before)
    loaded,         \* AccountManager.loaded
    calls           \* the load() / addAccount() calls: call -> its locals

mgrVars == <<strategy, accounts, activeIndex, scores>>
ioVars == <<saveTimer, disk, ticks, req>>
selVars == <<metrics, currentIndex, selected>>
loadVars == <<loaded, calls>>
vars == <<now, buckets, mgrVars, ioVars, selVars, loadVars>>

NULL == -1
PENDING == NULL - 1

Min(a, b) == IF a < b THEN a ELSE b
Max(a, b) == IF a > b THEN a ELSE b

TokenScale == 10
ScoreScale == 10

(***************************************************************************)
(* HEALTH SCORE SYSTEM                                                     *)
(***************************************************************************)
DEFAULT_HEALTH_CONFIG ==
    [initial |-> 70, successReward |-> 1, rateLimitPenalty |-> -10,
     failurePenalty |-> -20, recoveryRatePerHour |-> 2, minUsable |-> 50,
     maxScore |-> 100]

\* floor(hoursSince * recoveryRatePerHour), hoursSince = (t - lastUpdated) / 3600
getScore(sc, t, index) ==
    IF index \notin DOMAIN sc THEN DEFAULT_HEALTH_CONFIG.initial
    ELSE LET state == sc[index]
             recovered == ((t - state.lastUpdated)
                             * DEFAULT_HEALTH_CONFIG.recoveryRatePerHour) \div 3600
         IN  Min(DEFAULT_HEALTH_CONFIG.maxScore, state.score + recovered)

\* Map.set(index, state)
MapSet(m, index, state) ==
    [k \in DOMAIN m \cup {index} |-> IF k = index THEN state ELSE m[k]]

\* Map.delete(index)
MapDelete(m, index) == [k \in DOMAIN m \ {index} |-> m[k]]

healthRecordSuccess(sc, t, index) ==
    MapSet(sc, index,
        [score |-> Min(DEFAULT_HEALTH_CONFIG.maxScore,
                       getScore(sc, t, index) + DEFAULT_HEALTH_CONFIG.successReward),
         lastUpdated |-> t,
         consecutiveFailures |-> 0])

healthRecordRateLimit(sc, t, index) ==
    MapSet(sc, index,
        [score |-> Max(0, getScore(sc, t, index) + DEFAULT_HEALTH_CONFIG.rateLimitPenalty),
         lastUpdated |-> t,
         consecutiveFailures |->
            (IF index \in DOMAIN sc THEN sc[index].consecutiveFailures ELSE 0) + 1])

\* variant: recordFailure without the floor at 0
healthRecordFailureNoFloor(sc, t, index) ==
    MapSet(sc, index,
        [score |-> getScore(sc, t, index) + DEFAULT_HEALTH_CONFIG.failurePenalty,
         lastUpdated |-> t,
         consecutiveFailures |->
            (IF index \in DOMAIN sc THEN sc[index].consecutiveFailures ELSE 0) + 1])

healthRecordFailure(sc, t, index) ==
    MapSet(sc, index,
        [score |-> Max(0, getScore(sc, t, index) + DEFAULT_HEALTH_CONFIG.failurePenalty),
         lastUpdated |-> t,
         consecutiveFailures |->
            (IF index \in DOMAIN sc THEN sc[index].consecutiveFailures ELSE 0) + 1])

healthReset(sc, index) == MapDelete(sc, index)

(***************************************************************************)
(* TOKEN BUCKET SYSTEM (token counts in tenths of a token)                 *)
(***************************************************************************)
DEFAULT_TOKEN_BUCKET_CONFIG ==
    [maxTokens |-> 50, regenerationRatePerMinute |-> 6, initialTokens |-> 50]

\* min(maxTokens, tokens + minutesSince * regenerationRatePerMinute)
getTokens(bk, t, index) ==
    IF index \notin DOMAIN bk
    THEN DEFAULT_TOKEN_BUCKET_CONFIG.initialTokens * TokenScale
    ELSE LET state == bk[index]
             recovered == ((t - state.lastUpdated)
                            * DEFAULT_TOKEN_BUCKET_CONFIG.regenerationRatePerMinute
                            * TokenScale) \div 60
         IN  Min(DEFAULT_TOKEN_BUCKET_CONFIG.maxTokens * TokenScale,
                 state.tokens + recovered)

hasTokens(bk, t, index, cost) == getTokens(bk, t, index) >= cost * TokenScale

\* variant: consume without the `current < cost` test
consumeUnchecked(bk, t, index, cost) ==
    MapSet(bk, index,
        [tokens |-> getTokens(bk, t, index) - cost * TokenScale,
         lastUpdated |-> t])

\* variant: consume that subtracts from the initial token count instead of
\* the current one
consumeStale(bk, t, index, cost) ==
    MapSet(bk, index,
        [tokens |-> (DEFAULT_TOKEN_BUCKET_CONFIG.initialTokens - cost) * TokenScale,
         lastUpdated |-> t])

\* variant: consume that takes twice the cost
consumeTwice(bk, t, index, cost) ==
    IF getTokens(bk, t, index) < cost * TokenScale THEN bk
    ELSE MapSet(bk, index,
            [tokens |-> getTokens(bk, t, index) - 2 * cost * TokenScale,
             lastUpdated |-> t])

consume(bk, t, index, cost) ==
    IF getTokens(bk, t, index) < cost * TokenScale THEN bk
    ELSE MapSet(bk, index,
            [tokens |-> getTokens(bk, t, index) - cost * TokenScale,
             lastUpdated |-> t])

\* the boolean consume returns
consumeResult(bk, t, index, cost) == ~(getTokens(bk, t, index) < cost * TokenScale)

refund(bk, t, index, amount) ==
    MapSet(bk, index,
        [tokens |-> Min(DEFAULT_TOKEN_BUCKET_CONFIG.maxTokens * TokenScale,
                        getTokens(bk, t, index) + amount * TokenScale),
         lastUpdated |-> t])

getMaxTokens == DEFAULT_TOKEN_BUCKET_CONFIG.maxTokens

(***************************************************************************)
(* SELECTORS                                                               *)
(***************************************************************************)
STICKINESS_BONUS == 150
SWITCH_THRESHOLD == 100
FreshnessCap == 3600
DefaultMinHealthScore == 50

\* variant: the filter without the token-bucket test
IsCandidateNoTokens(acc, bk, t, minHealthScore) ==
    /\ ~acc.isRateLimited
    /\ acc.enabled
    /\ acc.healthScore >= minHealthScore

\* the filter of selectHybridAccount
IsCandidate(acc, bk, t, minHealthScore) ==
    /\ ~acc.isRateLimited
    /\ acc.enabled
    /\ acc.healthScore >= minHealthScore
    /\ hasTokens(bk, t, acc.index, 1)

\* variant: base score without the freshness component
BaseScoreNoFreshness(acc, bk, t) ==
    LET healthComponent == acc.healthScore * 2 * ScoreScale
        tokenComponent == (getTokens(bk, t, acc.index) * 100 * 5 * ScoreScale)
                              \div (getMaxTokens * TokenScale)
    IN  Max(0, healthComponent + tokenComponent)

\* baseScore of one candidate, in tenths of a point:
\*   health * 2 + (tokens / maxTokens) * 100 * 5 + min(secondsSinceUsed, 3600) * 0.1
BaseScore(acc, bk, t) ==
    LET healthComponent == acc.healthScore * 2 * ScoreScale
        tokenComponent == (getTokens(bk, t, acc.index) * 100 * 5 * ScoreScale)
                              \div (getMaxTokens * TokenScale)
        secondsSinceUsed == t - acc.lastUsed
        freshnessComponent == Min(secondsSinceUsed, FreshnessCap)
    IN  Max(0, healthComponent + tokenComponent + freshnessComponent)

\* variant: no stickiness bonus for the current account
ScoredNoBonus(acc, bk, t, cur) ==
    LET base == BaseScore(acc, bk, t)
    IN  [index |-> acc.index, baseScore |-> base, score |-> base,
         isCurrent |-> acc.index = cur]

Scored(acc, bk, t, cur) ==
    LET base == BaseScore(acc, bk, t)
    IN  [index |-> acc.index,
         baseScore |-> base,
         score |-> base + (IF acc.index = cur THEN STICKINESS_BONUS * ScoreScale ELSE 0),
         isCurrent |-> acc.index = cur]

\* variant: a sort that puts a later element before earlier ones of equal score
RECURSIVE InsertDescUnstable(_, _)
InsertDescUnstable(s, x) ==
    IF s = <<>> THEN <<x>>
    ELSE IF Head(s).score > x.score THEN <<Head(s)>> \o InsertDescUnstable(Tail(s), x)
    ELSE <<x>> \o s

\* Array.prototype.sort((a, b) => b.score - a.score): stable, descending
RECURSIVE InsertDesc(_, _)
InsertDesc(s, x) ==
    IF s = <<>> THEN <<x>>
    ELSE IF Head(s).score >= x.score THEN <<Head(s)>> \o InsertDesc(Tail(s), x)
    ELSE <<x>> \o s

RECURSIVE SortDesc(_)
SortDesc(s) ==
    IF s = <<>> THEN <<>>
    ELSE InsertDesc(SortDesc(SubSeq(s, 1, Len(s) - 1)), s[Len(s)])

\* Array.prototype.find / findIndex on a predicate given as a set of positions
FirstPos(S) == IF S = {} THEN 0 ELSE CHOOSE p \in S : \A q \in S : p <= q

selectHybridAccount(accts, bk, t, cur, minHealthScore) ==
    LET Cand(acc) == IsCandidate(acc, bk, t, minHealthScore)
        candidates == SelectSeq(accts, Cand)
        scored == SortDesc([k \in 1..Len(candidates) |->
                                Scored(candidates[k], bk, t, cur)])
        best == scored[1]
        curPos == FirstPos({k \in 1..Len(scored) : scored[k].isCurrent})
    IN  IF Len(candidates) = 0 THEN NULL
        ELSE IF curPos # 0 /\ ~best.isCurrent
                /\ best.baseScore - scored[curPos].baseScore
                      < SWITCH_THRESHOLD * ScoreScale
             THEN scored[curPos].index
             ELSE best.index

Available(accts) ==
    LET Avail(a) == ~a.isRateLimited /\ a.enabled
    IN  SelectSeq(accts, Avail)

\* variant: round-robin that stays on the last available account instead of wrapping
selectRoundRobinNoWrap(accts, cur) ==
    LET available == Available(accts)
        currentPos == FirstPos({k \in 1..Len(available) : available[k].index = cur}) - 1
        nextPos == Min(currentPos + 1, Len(available) - 1)
    IN  IF Len(available) = 0 THEN NULL
        ELSE IF cur = NULL THEN available[1].index
        ELSE available[nextPos + 1].index

selectRoundRobin(accts, cur) ==
    LET available == Available(accts)
        \* findIndex is 0-based and -1 when absent; FirstPos is 1-based and 0
        currentPos == FirstPos({k \in 1..Len(available) : available[k].index = cur}) - 1
        nextPos == (currentPos + 1) % Len(available)
    IN  IF Len(available) = 0 THEN NULL
        ELSE IF cur = NULL THEN available[1].index
        ELSE available[nextPos + 1].index

selectSticky(accts, cur) ==
    LET available == Available(accts)
        curPos == FirstPos({k \in 1..Len(available) : available[k].index = cur})
    IN  IF Len(available) = 0 THEN NULL
        ELSE IF cur # NULL /\ curPos # 0 THEN available[curPos].index
        ELSE available[1].index

(***************************************************************************)
(* ACCOUNT MANAGER                                                         *)
(* An account is [refreshToken, accessToken, accountId,                    *)
(* accessTokenExpires, lastUsed, enabled, rateLimitResetTime,              *)
(* rateLimitReason, consecutiveFailures].  A credential is a number; 0     *)
(* stands for an absent token, an absent accountId or an undefined number, *)
(* and "NONE" for an undefined reason.                                     *)
(***************************************************************************)
BACKOFF ==
    [RATE_LIMIT_MS |-> 30, QUOTA_EXHAUSTED_MS |-> <<60, 300, 1800>>,
     SERVER_ERROR_MS |-> 20, UNKNOWN_MS |-> 60, MIN_MS |-> 2]
DisableThreshold == 5
SaveDelay == 1
TokenBuffer == 60

Reasons == {"USAGE_LIMIT_REACHED", "RATE_LIMIT_EXCEEDED", "SERVER_ERROR", "UNKNOWN"}

\* variant: the quota ladder indexed by the count after the increment
calculateBackoffOffByOne(reason, failures) ==
    CASE reason = "USAGE_LIMIT_REACHED" ->
            BACKOFF.QUOTA_EXHAUSTED_MS[Min(failures + 1, Len(BACKOFF.QUOTA_EXHAUSTED_MS) - 1) + 1]
      [] reason = "RATE_LIMIT_EXCEEDED" -> BACKOFF.RATE_LIMIT_MS
      [] reason = "SERVER_ERROR" -> BACKOFF.SERVER_ERROR_MS
      [] OTHER -> BACKOFF.UNKNOWN_MS

calculateBackoff(reason, failures) ==
    CASE reason = "USAGE_LIMIT_REACHED" ->
            BACKOFF.QUOTA_EXHAUSTED_MS[Min(failures, Len(BACKOFF.QUOTA_EXHAUSTED_MS) - 1) + 1]
      [] reason = "RATE_LIMIT_EXCEEDED" -> BACKOFF.RATE_LIMIT_MS
      [] reason = "SERVER_ERROR" -> BACKOFF.SERVER_ERROR_MS
      [] OTHER -> BACKOFF.UNKNOWN_MS

\* the value isRateLimited returns
isRateLimited(acc, t) ==
    /\ acc.rateLimitResetTime # 0
    /\ t < acc.rateLimitResetTime

\* variant: expiry clears the reset time and keeps the reason
ClearExpiredKeepReason(accts, t) ==
    [k \in 1..Len(accts) |->
        IF accts[k].rateLimitResetTime # 0 /\ t >= accts[k].rateLimitResetTime
        THEN [accts[k] EXCEPT !.rateLimitResetTime = 0]
        ELSE accts[k]]

\* variant: a limit is cleared only after its reset time, not at it
ClearExpiredStrict(accts, t) ==
    [k \in 1..Len(accts) |->
        IF accts[k].rateLimitResetTime # 0 /\ t > accts[k].rateLimitResetTime
        THEN [accts[k] EXCEPT !.rateLimitResetTime = 0, !.rateLimitReason = "NONE"]
        ELSE accts[k]]

\* the side effect of isRateLimited on every account: an expired limit is cleared
ClearExpired(accts, t) ==
    [k \in 1..Len(accts) |->
        IF accts[k].rateLimitResetTime # 0 /\ t >= accts[k].rateLimitResetTime
        THEN [accts[k] EXCEPT !.rateLimitResetTime = 0, !.rateLimitReason = "NONE"]
        ELSE accts[k]]

\* the metrics snapshot of selectAccount
BuildMetrics(accts, sc, t) ==
    [k \in 1..Len(accts) |->
        [index |-> k - 1,
         lastUsed |-> accts[k].lastUsed,
         healthScore |-> getScore(sc, t, k - 1),
         isRateLimited |-> isRateLimited(accts[k], t),
         enabled |-> accts[k].enabled]]

\* the strategy dispatch of selectAccount
SelectorResult(accts, sc, bk, t, strat, cur) ==
    LET m == BuildMetrics(accts, sc, t)
        effectiveStrategy == IF Len(accts) = 1 THEN "sticky" ELSE strat
    IN  CASE effectiveStrategy = "round-robin" -> selectRoundRobin(m, cur)
          [] effectiveStrategy = "sticky" -> selectSticky(m, cur)
          [] OTHER -> selectHybridAccount(m, bk, t, cur, DefaultMinHealthScore)

\* variant: currReset <= prevReset, so that of two equal reset times the later wins
ResetsSoonerOrEqual(curr, prev) ==
    /\ curr.rateLimitResetTime # 0
    /\ \/ prev.rateLimitResetTime = 0
       \/ curr.rateLimitResetTime <= prev.rateLimitResetTime

\* currReset < prevReset with undefined read as Infinity
ResetsSooner(curr, prev) ==
    /\ curr.rateLimitResetTime # 0
    /\ \/ prev.rateLimitResetTime = 0
       \/ curr.rateLimitResetTime < prev.rateLimitResetTime

\* enabledAccounts.reduce(...) over positions: the soonest-to-reset enabled account
RECURSIVE SoonestFrom(_, _, _)
SoonestFrom(accts, prev, k) ==
    IF k > Len(accts) THEN prev
    ELSE IF accts[k].enabled /\ ResetsSooner(accts[k], accts[prev])
         THEN SoonestFrom(accts, k, k + 1)
         ELSE SoonestFrom(accts, prev, k + 1)

SoonestEnabled(accts) ==
    LET first == FirstPos({k \in 1..Len(accts) : accts[k].enabled})
    IN  IF first = 0 THEN NULL ELSE SoonestFrom(accts, first, first + 1) - 1

\* variant: the fallback takes the first account, enabled or not
selectAccountIndexAnyFallback(accts, sc, bk, t, strat, cur) ==
    IF Len(accts) = 0 THEN NULL
    ELSE LET cleared == ClearExpired(accts, t)
             sel == SelectorResult(cleared, sc, bk, t, strat, cur)
         IN  IF sel # NULL THEN sel ELSE 0

\* the index selectAccount returns (NULL for null)
selectAccountIndex(accts, sc, bk, t, strat, cur) ==
    IF Len(accts) = 0 THEN NULL
    ELSE LET cleared == ClearExpired(accts, t)
             sel == SelectorResult(cleared, sc, bk, t, strat, cur)
         IN  IF sel # NULL THEN sel ELSE SoonestEnabled(cleared)

\* accounts and activeIndex after selectAccount
selectAccountAccounts(accts, t) == ClearExpired(accts, t)
selectAccountActive(sel, cur) == IF sel = NULL THEN cur ELSE sel

\* variant: a success that also enables the account again
recordSuccessAccountsEnable(accts, t, index) ==
    [accts EXCEPT ![index + 1].lastUsed = t, ![index + 1].consecutiveFailures = 0,
                  ![index + 1].enabled = TRUE]

\* accounts after recordSuccess(index)
recordSuccessAccounts(accts, t, index) ==
    [accts EXCEPT ![index + 1].lastUsed = t, ![index + 1].consecutiveFailures = 0]

\* variant: markRateLimited that applies no backoff
markRateLimitedAccountsNoBackoff(accts, t, index, reason) ==
    [accts EXCEPT
        ![index + 1].rateLimitResetTime = t,
        ![index + 1].rateLimitReason = reason,
        ![index + 1].consecutiveFailures = @ + 1]

\* accounts after markRateLimited(index, reason)
markRateLimitedAccounts(accts, t, index, reason) ==
    [accts EXCEPT
        ![index + 1].rateLimitResetTime =
            t + calculateBackoff(reason, accts[index + 1].consecutiveFailures),
        ![index + 1].rateLimitReason = reason,
        ![index + 1].consecutiveFailures = @ + 1]

\* variant: recordFailure that never disables
recordFailureAccountsNoDisable(accts, index) ==
    [accts EXCEPT ![index + 1].consecutiveFailures = @ + 1]

\* accounts after recordFailure(index)
recordFailureAccounts(accts, index) ==
    [accts EXCEPT
        ![index + 1].consecutiveFailures = @ + 1,
        ![index + 1].enabled =
            IF accts[index + 1].consecutiveFailures + 1 >= DisableThreshold
            THEN FALSE ELSE @]

\* scheduleSave: cancel the pending timer and arm a new one
scheduleSave(t) == t + SaveDelay

\* the StoredAccount[] and activeIndex that saveToDisk writes
saveToDiskSnapshot(accts, cur) ==
    [accounts |-> accts, activeIndex |-> IF cur = NULL THEN 0 ELSE cur]

\* the condition under which ensureAccessToken returns without refreshing
tokenFresh(acc, t) ==
    /\ acc.accessToken # 0
    /\ acc.accessTokenExpires # 0
    /\ acc.accessTokenExpires > t + TokenBuffer

\* addAccount: position of the first account matching the tokens by refresh
\* token or by a present accountId (0 when there is none)
findExisting(accts, tk) ==
    FirstPos({k \in 1..Len(accts) :
                 \/ accts[k].refreshToken = tk.refresh
                 \/ (tk.accountId # 0 /\ accts[k].accountId = tk.accountId)})

\* the account addAccount pushes
newAccount(tk) ==
    [refreshToken |-> tk.refresh, accessToken |-> tk.access,
     accountId |-> tk.accountId, accessTokenExpires |-> tk.expires,
     lastUsed |-> 0, enabled |-> TRUE, rateLimitResetTime |-> 0,
     rateLimitReason |-> "NONE", consecutiveFailures |-> 0]

\* variant: addAccount that keeps the penalty state of the account it updates
addAccountAccountsKeepPenalty(accts, tk) ==
    LET k == findExisting(accts, tk)
    IN  IF k # 0
        THEN [accts EXCEPT
                 ![k].refreshToken = tk.refresh,
                 ![k].accessToken = tk.access,
                 ![k].accessTokenExpires = tk.expires,
                 ![k].accountId = tk.accountId]
        ELSE Append(accts, newAccount(tk))

\* accounts, health scores, activeIndex and return value after addAccount(tk)
addAccountAccounts(accts, tk) ==
    LET k == findExisting(accts, tk)
    IN  IF k # 0
        THEN [accts EXCEPT
                 ![k].refreshToken = tk.refresh,
                 ![k].accessToken = tk.access,
                 ![k].accessTokenExpires = tk.expires,
                 ![k].accountId = tk.accountId,
                 ![k].enabled = TRUE,
                 ![k].consecutiveFailures = 0,
                 ![k].rateLimitResetTime = 0,
                 ![k].rateLimitReason = "NONE"]
        ELSE Append(accts, newAccount(tk))
addAccountScores(sc, accts, tk) ==
    LET k == findExisting(accts, tk)
    IN  IF k # 0 THEN healthReset(sc, k - 1) ELSE sc
addAccountActive(accts, cur, tk) ==
    IF findExisting(accts, tk) = 0 /\ Len(accts) = 0 THEN 0 ELSE cur
addAccountResult(accts, tk) ==
    LET k == findExisting(accts, tk)
    IN  IF k # 0 THEN k - 1 ELSE Len(accts)

\* the credentials a successful refreshAccessToken returns for an account:
\* a new refresh token and access token of the same owner
rotated(token) == token + 100
\* the account a token was issued for (the chatgpt_account_id claim of its JWT)
owner(token) == token % 10

\* variant: a refresh that keeps the old refresh token
ensureRefreshedAccountsKeepRefresh(accts, index, result) ==
    [accts EXCEPT
        ![index + 1].accessToken = result.access,
        ![index + 1].accessTokenExpires = result.expires,
        ![index + 1].accountId = IF @ = 0 THEN result.accountId ELSE @]

\* accounts after a successful refresh in ensureAccessToken; result.accountId
\* is the id decodeJWT finds in the new access token (0 when it finds none)
ensureRefreshedAccounts(accts, index, result) ==
    [accts EXCEPT
        ![index + 1].refreshToken = result.refresh,
        ![index + 1].accessToken = result.access,
        ![index + 1].accessTokenExpires = result.expires,
        ![index + 1].accountId = IF @ = 0 THEN result.accountId ELSE @]
(***************************************************************************)
(* RESPONSE CLASSIFICATION                                                 *)
(* A response is [status, body]; status 0 stands for a send that rejects.  *)
(* A body is one of a few representative texts, and String.includes is     *)
(* the table Includes.                                                     *)
(***************************************************************************)
HTTP_STATUS ==
    [OK |-> 200, UNAUTHORIZED |-> 401, NOT_FOUND |-> 404,
     TOO_MANY_REQUESTS |-> 429, SERVICE_UNAVAILABLE |-> 503]
StatusOverloaded == 529
MAX_RETRIES == 3

Includes(body, pattern) ==
    \/ body # "" /\ body = pattern
    \/ body = "rate_limit_exceeded" /\ pattern = "rate_limit"

classifyRateLimitReason(status, bodyText) ==
    IF status = HTTP_STATUS.SERVICE_UNAVAILABLE \/ status = StatusOverloaded
    THEN "SERVER_ERROR"
    ELSE IF \E pat \in {"usage_limit_reached", "usage_not_included", "usage limit",
                        "exhausted", "quota"} : Includes(bodyText, pat)
    THEN "USAGE_LIMIT_REACHED"
    ELSE IF \E pat \in {"rate_limit", "rate limit", "too many requests",
                        "per minute"} : Includes(bodyText, pat)
    THEN "RATE_LIMIT_EXCEEDED"
    ELSE "UNKNOWN"

\* the status of the response handleErrorResponse returns (mapUsageLimit404)
handleErrorResponse(status, bodyText) ==
    IF status # HTTP_STATUS.NOT_FOUND THEN status
    ELSE IF bodyText = "" THEN status
    ELSE IF \E pat \in {"usage_limit_reached", "usage_not_included",
                        "rate_limit_exceeded", "usage limit"} : Includes(bodyText, pat)
    THEN HTTP_STATUS.TOO_MANY_REQUESTS
    ELSE status

\* variant: a dispatch that also treats 500 as a rate-limit status
IsLimitStatusWith500(status) ==
    status \in {HTTP_STATUS.TOO_MANY_REQUESTS, HTTP_STATUS.NOT_FOUND,
                HTTP_STATUS.SERVICE_UNAVAILABLE, StatusOverloaded, 500}

\* the statuses of the rate-limit branch of the dispatch
IsLimitStatus(status) ==
    status \in {HTTP_STATUS.TOO_MANY_REQUESTS, HTTP_STATUS.NOT_FOUND,
                HTTP_STATUS.SERVICE_UNAVAILABLE, StatusOverloaded}

\* variant: a dispatch without the special handling of a real 404
isReal404Never(status, reason) == FALSE

\* "404 that's NOT a usage limit": returned as it is
isReal404(status, reason) ==
    status = HTTP_STATUS.NOT_FOUND /\ reason = "UNKNOWN"

(***************************************************************************)
(* THE CUSTOM FETCH (one record of locals per invocation)                  *)
(*   pc: "idle" before the call, "transform" awaiting                      *)
(*   transformRequestForCodex, "refreshing" awaiting refreshAccessToken,   *)
(*   "sending" awaiting the upstream fetch, "done" once it has returned or *)
(*   thrown (result says which); response is the last response received   *)
(*   from upstream and branch the branch of the dispatch it took.          *)
(* The code from one await to the next runs without interleaving, so each  *)
(* action is one such run.  syncActiveAccountToOpencode, toasts and logs   *)
(* touch only the host and are left out.                                   *)
(***************************************************************************)
Requests == {1}
Responses ==
    {[status |-> 200, body |-> ""], [status |-> 401, body |-> ""],
     [status |-> 500, body |-> ""], [status |-> 503, body |-> ""],
     [status |-> 529, body |-> ""], [status |-> 429, body |-> ""],
     [status |-> 429, body |-> "rate_limit_exceeded"],
     [status |-> 429, body |-> "usage_limit_reached"],
     [status |-> 404, body |-> "usage_limit_reached"],
     [status |-> 404, body |-> "quota"],
     [status |-> 404, body |-> "not found"],
     [status |-> 0, body |-> ""]}
ExpiresInChoices == {3600}
TickSteps == {1800}
MaxTicks == 1

IdleReq ==
    [pc |-> "idle", attempt |-> 0, account |-> NULL, sends |-> 0, refreshes |-> 0,
     inflight |-> 0, branch |-> "none", result |-> "none", surfaced |-> 0,
     response |-> [status |-> 0, body |-> ""],
     \* the refresh token given to the refreshAccessToken call in flight (0: none)
     refreshToken |-> 0]

\* the locals after `return`/`throw`
Finish(q, result, surfaced) ==
    [q EXCEPT !.pc = "done", !.result = result, !.surfaced = surfaced]

\* variant: the loop without its `attempt <= MAX_RETRIES` test
EnterIterationNoTest(q, accts, t, account, attempt) ==
    LET q1 == [q EXCEPT !.account = account, !.attempt = attempt]
    IN  IF tokenFresh(accts[account + 1], t)
        THEN [q1 EXCEPT !.pc = "sending", !.sends = @ + 1, !.inflight = @ + 1]
        ELSE [q1 EXCEPT !.pc = "refreshing", !.refreshes = @ + 1,
                        !.refreshToken = accts[account + 1].refreshToken]

\* top of one loop iteration with `account` chosen: the loop test, then
\* ensureAccessToken up to its first await, then (token fresh) the send
EnterIteration(q, accts, t, account, attempt) ==
    LET q1 == [q EXCEPT !.account = account, !.attempt = attempt]
    IN  IF attempt > MAX_RETRIES THEN Finish(q1, "throw:exhausted", 0)
        ELSE IF tokenFresh(accts[account + 1], t)
        THEN [q1 EXCEPT !.pc = "sending", !.sends = @ + 1, !.inflight = @ + 1]
        ELSE [q1 EXCEPT !.pc = "refreshing", !.refreshes = @ + 1,
                        !.refreshToken = accts[account + 1].refreshToken]

\* fetch(): selectAccount, JSON.parse of the body, then await the transformation
FetchStart(r) ==
    /\ req[r].pc = "idle"
    /\ LET sel == selectAccountIndex(accounts, scores, buckets, now, strategy, activeIndex)
       IN  /\ accounts' = selectAccountAccounts(accounts, now)
           /\ activeIndex' = selectAccountActive(sel, activeIndex)
           /\ \/ /\ sel = NULL
                 /\ req' = [req EXCEPT ![r] = Finish(@, "throw:no_accounts", 0)]
              \/ /\ sel # NULL
                 /\ \E bodyParses \in BOOLEAN :
                       req' = [req EXCEPT ![r] =
                                 IF bodyParses
                                 THEN [@ EXCEPT !.pc = "transform", !.account = sel]
                                 ELSE Finish([@ EXCEPT !.account = sel], "throw:parse", 0)]
    /\ UNCHANGED <<now, buckets, strategy, scores, saveTimer, disk, ticks, selVars, loadVars>>

\* the transformation has resolved: first loop iteration
Transformed(r) ==
    /\ req[r].pc = "transform"
    /\ req' = [req EXCEPT ![r] = EnterIteration(@, accounts, now, req[r].account, 0)]
    /\ UNCHANGED <<now, buckets, mgrVars, saveTimer, disk, ticks, selVars, loadVars>>

\* refreshAccessToken failed: recordFailure, selectAccount, continue
RefreshFailed(r) ==
    /\ req[r].pc = "refreshing"
    /\ LET a == req[r].account
           accts1 == recordFailureAccounts(accounts, a)
           sc1 == healthRecordFailure(scores, now, a)
           sel == selectAccountIndex(accts1, sc1, buckets, now, strategy, activeIndex)
           accts2 == selectAccountAccounts(accts1, now)
       IN  /\ accounts' = accts2
           /\ scores' = sc1
           /\ activeIndex' = selectAccountActive(sel, activeIndex)
           /\ saveTimer' = scheduleSave(now)
           /\ req' = [req EXCEPT ![r] =
                        IF sel = NULL
                        THEN Finish([@ EXCEPT !.refreshToken = 0], "throw:no_accounts", 0)
                        ELSE EnterIteration([@ EXCEPT !.refreshToken = 0], accts2, now, sel,
                                            req[r].attempt + 1)]
    /\ UNCHANGED <<now, buckets, strategy, disk, ticks, selVars, loadVars>>

\* refreshAccessToken succeeded: credentials updated, scheduleSave, then the send
RefreshSucceeded(r) ==
    /\ req[r].pc = "refreshing"
    /\ \E expiresIn \in ExpiresInChoices :
          accounts' = ensureRefreshedAccounts(accounts, req[r].account,
                          [refresh |-> rotated(req[r].refreshToken),
                           access |-> rotated(req[r].refreshToken),
                           expires |-> now + expiresIn,
                           accountId |-> owner(req[r].refreshToken)])
    /\ saveTimer' = scheduleSave(now)
    /\ req' = [req EXCEPT ![r].pc = "sending", ![r].sends = @ + 1, ![r].inflight = @ + 1,
                          ![r].refreshToken = 0]
    /\ UNCHANGED <<now, buckets, strategy, activeIndex, scores, disk, ticks, selVars, loadVars>>

\* the response has arrived and is dispatched to a branch
Received(q, branch, resp) ==
    [q EXCEPT !.inflight = @ - 1, !.branch = branch, !.response = resp]

\* variant: a rejected send that is counted as a failure of the account
SendRejectedCounted(r) ==
    /\ req[r].pc = "sending"
    /\ req' = [req EXCEPT ![r] =
                 Finish(Received(@, "rejected", [status |-> 0, body |-> ""]),
                        "throw:network", 0)]
    /\ accounts' = recordFailureAccounts(accounts, req[r].account)
    /\ scores' = healthRecordFailure(scores, now, req[r].account)
    /\ UNCHANGED <<now, buckets, strategy, activeIndex, saveTimer, disk, ticks,
                   selVars, loadVars>>

\* the upstream fetch rejects: the exception leaves the loop
SendRejected(r) ==
    /\ req[r].pc = "sending"
    /\ req' = [req EXCEPT ![r] =
                 Finish(Received(@, "rejected", [status |-> 0, body |-> ""]),
                        "throw:network", 0)]
    /\ UNCHANGED <<now, buckets, mgrVars, saveTimer, disk, ticks, selVars, loadVars>>

\* response.ok: recordSuccess and return
ResponseOk(r) ==
    /\ req[r].pc = "sending"
    /\ \E resp \in Responses :
          /\ resp.status = HTTP_STATUS.OK
          /\ req' = [req EXCEPT ![r] = Finish(Received(@, "ok", resp), "response", resp.status)]
    /\ accounts' = recordSuccessAccounts(accounts, now, req[r].account)
    /\ scores' = healthRecordSuccess(scores, now, req[r].account)
    /\ buckets' = consume(buckets, now, req[r].account, 1)
    /\ saveTimer' = scheduleSave(now)
    /\ UNCHANGED <<now, strategy, activeIndex, disk, ticks, selVars, loadVars>>

\* 429 / 404 / 503 / 529: classify; a 404 classified UNKNOWN is returned as is;
\* otherwise markRateLimited, then selectAccount and continue, or return
ResponseLimit(r) ==
    /\ req[r].pc = "sending"
    /\ \E resp \in Responses :
          /\ IsLimitStatus(resp.status)
          /\ LET a == req[r].account
                 q == Received(req[r], "limit", resp)
                 reason == classifyRateLimitReason(resp.status, resp.body)
                 accts1 == markRateLimitedAccounts(accounts, now, a, reason)
                 sc1 == healthRecordRateLimit(scores, now, a)
                 sel == selectAccountIndex(accts1, sc1, buckets, now, strategy, activeIndex)
                 accts2 == selectAccountAccounts(accts1, now)
             IN  IF isReal404(resp.status, reason)
                 THEN /\ req' = [req EXCEPT ![r] =
                                   Finish([q EXCEPT !.branch = "notfound"], "response",
                                          resp.status)]
                      /\ UNCHANGED <<accounts, scores, activeIndex, saveTimer>>
                 ELSE IF req[r].attempt < MAX_RETRIES
                 THEN /\ accounts' = accts2
                      /\ scores' = sc1
                      /\ activeIndex' = selectAccountActive(sel, activeIndex)
                      /\ saveTimer' = scheduleSave(now)
                      /\ req' = [req EXCEPT ![r] =
                                   IF sel # NULL
                                   THEN EnterIteration(q, accts2, now, sel, req[r].attempt + 1)
                                   ELSE Finish(q, "response",
                                               handleErrorResponse(resp.status, resp.body))]
                 ELSE /\ accounts' = accts1
                      /\ scores' = sc1
                      /\ saveTimer' = scheduleSave(now)
                      /\ req' = [req EXCEPT ![r] =
                                   Finish(q, "response",
                                          handleErrorResponse(resp.status, resp.body))]
                      /\ UNCHANGED activeIndex
    /\ UNCHANGED <<now, buckets, strategy, disk, ticks, selVars, loadVars>>

\* 401: recordFailure, then selectAccount and continue, or return
ResponseUnauthorized(r) ==
    /\ req[r].pc = "sending"
    /\ \E resp \in Responses :
          /\ resp.status = HTTP_STATUS.UNAUTHORIZED
          /\ LET a == req[r].account
                 q == Received(req[r], "auth", resp)
                 accts1 == recordFailureAccounts(accounts, a)
                 sc1 == healthRecordFailure(scores, now, a)
                 sel == selectAccountIndex(accts1, sc1, buckets, now, strategy, activeIndex)
                 accts2 == selectAccountAccounts(accts1, now)
             IN  IF req[r].attempt < MAX_RETRIES
                 THEN /\ accounts' = accts2
                      /\ activeIndex' = selectAccountActive(sel, activeIndex)
                      /\ req' = [req EXCEPT ![r] =
                                   IF sel # NULL
                                   THEN EnterIteration(q, accts2, now, sel, req[r].attempt + 1)
                                   ELSE Finish(q, "response",
                                               handleErrorResponse(resp.status, resp.body))]
                      /\ scores' = sc1
                 ELSE /\ accounts' = accts1
                      /\ req' = [req EXCEPT ![r] =
                                   Finish(q, "response",
                                          handleErrorResponse(resp.status, resp.body))]
                      /\ scores' = sc1
                      /\ UNCHANGED activeIndex
    /\ saveTimer' = scheduleSave(now)
    /\ UNCHANGED <<now, buckets, strategy, disk, ticks, selVars, loadVars>>

\* any other status: returned through handleErrorResponse
ResponseOther(r) ==
    /\ req[r].pc = "sending"
    /\ \E resp \in Responses :
          /\ resp.status # 0
          /\ resp.status # HTTP_STATUS.OK
          /\ ~IsLimitStatus(resp.status)
          /\ resp.status # HTTP_STATUS.UNAUTHORIZED
          /\ req' = [req EXCEPT ![r] =
                       Finish(Received(@, "other", resp), "response",
                              handleErrorResponse(resp.status, resp.body))]
    /\ UNCHANGED <<now, buckets, mgrVars, saveTimer, disk, ticks, selVars, loadVars>>

\* the debounce timer fires: saveToDisk writes the state as it is now
SaveTimerFires ==
    /\ saveTimer # 0
    /\ now >= saveTimer
    /\ saveTimer' = 0
    /\ disk' = saveToDiskSnapshot(accounts, activeIndex)
    /\ UNCHANGED <<now, buckets, mgrVars, ticks, req, selVars, loadVars>>

\* the clock advances (while a fetch is still to run or running)
Tick ==
    /\ ticks < MaxTicks
    /\ \E r \in Requests : req[r].pc # "done"
    /\ \E d \in TickSteps : now' = now + d
    /\ ticks' = ticks + 1
    /\ UNCHANGED <<buckets, mgrVars, saveTimer, disk, req, selVars, loadVars>>

(***************************************************************************)
(* The state after load(): up to two accounts as a storage file can hold   *)
(* them (never failed with a valid access token, never failed without     *)
(* one, or with four failures and without one), active index 0, fresh      *)
(* trackers (they are not persisted), any strategy.                        *)
(***************************************************************************)
InitNow == 100000
StoredChoices ==
    {[enabled |-> TRUE, consecutiveFailures |-> 0, accessTokenExpires |-> InitNow + 3600],
     [enabled |-> TRUE, consecutiveFailures |-> 0, accessTokenExpires |-> 0],
     [enabled |-> TRUE, consecutiveFailures |-> 4, accessTokenExpires |-> 0]}

StoredAccount(k, st) ==
    [refreshToken |-> k, accountId |-> k,
     accessToken |-> IF st.accessTokenExpires = 0 THEN 0 ELSE k,
     accessTokenExpires |-> st.accessTokenExpires, lastUsed |-> 0,
     enabled |-> st.enabled, rateLimitResetTime |-> 0, rateLimitReason |-> "NONE",
     consecutiveFailures |-> st.consecutiveFailures]

Init ==
    /\ now = InitNow
    /\ strategy \in {"hybrid", "sticky", "round-robin"}
    /\ \E n \in 0..2 :
          /\ \E st \in [1..n -> StoredChoices] :
                accounts = [k \in 1..n |-> StoredAccount(k, st[k])]
          /\ activeIndex = IF n = 0 THEN NULL ELSE 0
    /\ scores = <<>>
    /\ buckets = <<>>
    /\ saveTimer = 0
    /\ disk = saveToDiskSnapshot(accounts, activeIndex)
    /\ ticks = 0
    /\ req = [r \in Requests |-> IdleReq]
    /\ metrics = <<>>
    /\ currentIndex = NULL
    /\ selected = PENDING
    /\ loaded = TRUE
    /\ calls = <<>>

Next ==
    \/ \E r \in Requests : FetchStart(r)
    \/ \E r \in Requests : Transformed(r)
    \/ \E r \in Requests : RefreshFailed(r)
    \/ \E r \in Requests : RefreshSucceeded(r)
    \/ \E r \in Requests : SendRejected(r)
    \/ \E r \in Requests : ResponseOk(r)
    \/ \E r \in Requests : ResponseLimit(r)
    \/ \E r \in Requests : ResponseUnauthorized(r)
    \/ \E r \in Requests : ResponseOther(r)
    \/ SaveTimerFires
    \/ Tick

Spec == Init /\ [][Next]_vars

\* a variant of the retry loop: the number of steps an invocation in state q
\* can still take
Rank(q) ==
    CASE q.pc = "done" -> 0
      [] q.pc = "idle" -> 3 * (MAX_RETRIES + 2) + 2
      [] q.pc = "transform" -> 3 * (MAX_RETRIES + 2) + 1
      [] q.pc = "refreshing" -> 3 * (MAX_RETRIES + 1 - q.attempt) + 2
      [] q.pc = "sending" -> 3 * (MAX_RETRIES + 1 - q.attempt) + 1

\* C1: every invocation terminates (each of its steps lowers a natural-number
\* rank), after at most MAX_RETRIES + 1 upstream sends and at most
\* MAX_RETRIES + 1 token refreshes, with never more than one send in flight.
C1_TerminatesBounded ==
    /\ [](\A r \in Requests :
            /\ Rank(req[r]) >= 0
            /\ req[r].sends <= MAX_RETRIES + 1
            /\ req[r].refreshes <= MAX_RETRIES + 1
            /\ req[r].inflight \in {0, 1}
            /\ (req[r].inflight = 1 <=> req[r].pc = "sending"))
    /\ [][\A r \in Requests :
            req'[r] # req[r] => Rank(req'[r]) < Rank(req[r])]_vars
C1_Witness ==
    \E r \in Requests :
        /\ req[r].pc = "done"
        /\ req[r].sends = MAX_RETRIES + 1
        /\ req[r].result = "response"

\* the step in which request r handled a rate-limit response, marked its
\* account and chose the account of the retry
LimitRetryStep(r) ==
    /\ req[r].pc = "sending"
    /\ req'[r].branch = "limit"
    /\ req'[r].attempt = req[r].attempt + 1
\* C2 as stated: after an account is marked rate-limited, if the pool holds
\* another enabled account the retry uses an account other than the marked one.
C2_AsStated ==
    [][\A r \in Requests :
          (/\ LimitRetryStep(r)
           /\ \E k \in 1..Len(accounts) :
                 k # req[r].account + 1 /\ accounts[k].enabled)
          => req'[r].account # req[r].account]_vars
\* C2 amended: the retry uses another account whenever another account passes
\* the selector's filter: enabled and not rate-limited and, under the hybrid
\* strategy, with health >= 50 and at least one token.
C2_RetrySwitches ==
    [][\A r \in Requests :
          (/\ LimitRetryStep(r)
           /\ \E k \in 1..Len(accounts) :
                 /\ k # req[r].account + 1
                 /\ accounts'[k].enabled
                 /\ (accounts'[k].rateLimitResetTime = 0
                        \/ now >= accounts'[k].rateLimitResetTime)
                 /\ strategy = "hybrid" =>
                       /\ getScore(scores', now, k - 1) >= 50
                       /\ getTokens(buckets', now, k - 1) >= 1 * TokenScale)
          => req'[r].account # req[r].account]_vars
C2_Witness ==
    \E r \in Requests :
        /\ req[r].branch = "limit"
        /\ req[r].attempt = 1
        /\ req[r].pc = "sending"
        /\ req[r].account = 1
        /\ accounts[1].rateLimitResetTime > now

\* C8 as stated: an account with consecutiveFailures >= 5 is disabled.
C8_AsStated ==
    \A k \in 1..Len(accounts) :
        accounts[k].consecutiveFailures >= 5 => ~accounts[k].enabled
\* the step in which request r applied recordFailure to its account
RecordFailureStep(r) ==
    \/ /\ req[r].pc = "refreshing"
       /\ accounts'[req[r].account + 1].consecutiveFailures
             = accounts[req[r].account + 1].consecutiveFailures + 1
    \/ /\ req[r].pc = "sending"
       /\ req'[r] # req[r]
       /\ req'[r].branch = "auth"
\* C8 amended: after every recordFailure that leaves consecutiveFailures >= 5
\* the account is disabled (markRateLimited raises the counter without
\* disabling).
C8_FailureDisables ==
    [][\A r \in Requests :
          RecordFailureStep(r) =>
              (accounts'[req[r].account + 1].consecutiveFailures >= 5
                  => ~accounts'[req[r].account + 1].enabled)]_vars
C8_Witness ==
    \E k \in 1..Len(accounts) :
        /\ ~accounts[k].enabled
        /\ accounts[k].consecutiveFailures = 5
        /\ k - 1 \in DOMAIN scores
        /\ scores[k - 1].consecutiveFailures >= 1

\* the step in which request r applied markRateLimited to its account
MarkStep(r) ==
    /\ req[r].pc = "sending"
    /\ req'[r] # req[r]
    /\ req'[r].branch = "limit"
\* C9: markRateLimited sets rateLimitResetTime = now + backoff with backoff
\* 30 s (RATE_LIMIT_EXCEEDED), 20 s (SERVER_ERROR), 60 s (UNKNOWN) and, for
\* USAGE_LIMIT_REACHED, entry min(c, 2) of [60, 300, 1800] s with c the
\* consecutiveFailures before the call; no backoff is below 2 s.
C9_Backoff ==
    [][\A r \in Requests :
          MarkStep(r) =>
              LET before == accounts[req[r].account + 1]
                  after == accounts'[req[r].account + 1]
                  c == before.consecutiveFailures
                  offset == after.rateLimitResetTime - now
              IN  /\ after.consecutiveFailures = c + 1
                  /\ offset >= 2
                  /\ after.rateLimitReason \in Reasons
                  /\ after.rateLimitReason = "RATE_LIMIT_EXCEEDED" => offset = 30
                  /\ after.rateLimitReason = "SERVER_ERROR" => offset = 20
                  /\ after.rateLimitReason = "UNKNOWN" => offset = 60
                  /\ after.rateLimitReason = "USAGE_LIMIT_REACHED" =>
                        /\ c = 0 => offset = 60
                        /\ c = 1 => offset = 300
                        /\ c >= 2 => offset = 1800]_vars
C9_Witness ==
    \E r \in Requests :
        /\ req[r].branch = "limit"
        /\ req[r].attempt = 3
        /\ Len(accounts) = 1
        /\ accounts[1].consecutiveFailures = 3
        /\ accounts[1].rateLimitReason = "USAGE_LIMIT_REACHED"
        /\ accounts[1].rateLimitResetTime = now + 1800

(***************************************************************************)
(* SELECTOR HARNESS: selectHybridAccount applied to arbitrary metrics      *)
(***************************************************************************)
SelNow == 10000
SelIndices == {0, 1}
HealthChoices == {49, 50, 100, 101, 125, 126}
LastUsedChoices == {SelNow, SelNow - 1500, SelNow - 3600, 0}
StatusChoices == {<<TRUE, FALSE>>, <<FALSE, FALSE>>, <<TRUE, TRUE>>}
\* stored token counts (tenths); NULL stands for "no bucket yet" (full)
BucketChoices == {NULL, 400, 10, 9}

MetricsChoices ==
    [{i + 1 : i \in SelIndices} -> [health : HealthChoices, lastUsed : LastUsedChoices,
                        status : StatusChoices]]

InitSel ==
    /\ now = SelNow
    /\ \E m \in MetricsChoices :
          metrics = [k \in 1..Cardinality(SelIndices) |->
                        [index |-> k - 1,
                         lastUsed |-> m[k].lastUsed,
                         healthScore |-> m[k].health,
                         isRateLimited |-> m[k].status[2],
                         enabled |-> m[k].status[1]]]
    /\ \E b \in [SelIndices -> BucketChoices] :
          buckets = [i \in {j \in DOMAIN b : b[j] # NULL} |->
                        [tokens |-> b[i], lastUpdated |-> SelNow]]
    /\ currentIndex \in {NULL} \cup SelIndices
    /\ selected = PENDING
    /\ strategy = "hybrid"
    /\ accounts = <<>>
    /\ activeIndex = NULL
    /\ scores = <<>>
    /\ saveTimer = 0
    /\ disk = [accounts |-> <<>>, activeIndex |-> 0]
    /\ ticks = 0
    /\ req = <<>>
    /\ loaded = FALSE
    /\ calls = <<>>

ApplyHybrid ==
    /\ selected = PENDING
    /\ selected' = selectHybridAccount(metrics, buckets, now, currentIndex,
                                       DefaultMinHealthScore)
    /\ UNCHANGED <<now, buckets, mgrVars, ioVars, metrics, currentIndex, loadVars>>

NextSel == ApplyHybrid

SpecSel == InitSel /\ [][NextSel]_vars

\* ---- facts about one application of selectHybridAccount ----
SelDone == selected # PENDING
PassesFilter(k) ==
    /\ metrics[k].enabled
    /\ ~metrics[k].isRateLimited
    /\ metrics[k].healthScore >= 50
    /\ getTokens(buckets, now, metrics[k].index) >= 1 * TokenScale
\* position of the active account, of the other account, and the base-score
\* advantage of the other account over the active one (tenths of a point)
CurPos == currentIndex + 1
OtherPos == IF currentIndex = 0 THEN 2 ELSE 1
Advantage ==
    BaseScore(metrics[OtherPos], buckets, now) - BaseScore(metrics[CurPos], buckets, now)
BothCandidates ==
    /\ currentIndex # NULL
    /\ PassesFilter(1)
    /\ PassesFilter(2)
EqualTokensAndFreshness ==
    /\ getTokens(buckets, now, 0) = getTokens(buckets, now, 1)
    /\ metrics[1].lastUsed = metrics[2].lastUsed

\* C3: hybrid selection returns null or the index of an account that is
\* enabled, not rate-limited, has health >= 50 and at least one token; in
\* particular never the active account when it fails that filter.
C3_HybridOnlyCandidates ==
    SelDone =>
        \/ selected = NULL
        \/ \E k \in 1..Len(metrics) :
              /\ metrics[k].index = selected
              /\ PassesFilter(k)
C3_Witness ==
    /\ SelDone
    /\ currentIndex = 0
    /\ ~PassesFilter(1)
    /\ selected = 1

\* C5 as stated: with the active account and exactly one other account both
\* candidates, advantage < 100 returns the active account and advantage >= 100
\* returns the other one.
C5_AsStated ==
    (SelDone /\ BothCandidates) =>
        /\ (Advantage < SWITCH_THRESHOLD * ScoreScale => selected = currentIndex)
        /\ (Advantage >= SWITCH_THRESHOLD * ScoreScale => selected = OtherPos - 1)
\* C5 amended: advantage below 100 (indeed below STICKINESS_BONUS = 150)
\* returns the active account; advantage above 150 returns the other one.
C5_AntiFlap ==
    (SelDone /\ BothCandidates) =>
        /\ (Advantage < STICKINESS_BONUS * ScoreScale => selected = currentIndex)
        /\ (Advantage > STICKINESS_BONUS * ScoreScale => selected = OtherPos - 1)
C5_Witness ==
    /\ SelDone
    /\ BothCandidates
    /\ Advantage >= SWITCH_THRESHOLD * ScoreScale
    /\ Advantage < STICKINESS_BONUS * ScoreScale
    /\ selected = currentIndex

StickinessSetup ==
    /\ SelDone
    /\ BothCandidates
    /\ currentIndex = 0
    /\ metrics[1].healthScore = metrics[2].healthScore
    /\ getTokens(buckets, now, 0) = getMaxTokens * TokenScale
    /\ getTokens(buckets, now, 1) = getMaxTokens * TokenScale
    /\ metrics[1].lastUsed = now
\* C7 as stated: with A1 last used 3600 s ago or never, select returns A0.
C7_AsStated ==
    (StickinessSetup /\ metrics[2].lastUsed \in {now - 3600, 0}) => selected = 0
\* C7 amended: select returns A0 while A1 was last used at most 1500 s ago
\* (freshness advantage <= 150 = STICKINESS_BONUS), and returns A1 when A1 was
\* last used more than 1500 s ago, in particular 3600 s ago or never.
C7_Stickiness ==
    StickinessSetup =>
        /\ (now - metrics[2].lastUsed <= 1500 => selected = 0)
        /\ (now - metrics[2].lastUsed > 1500 => selected = 1)
C7_Witness ==
    /\ StickinessSetup
    /\ metrics[2].lastUsed = now - 3600
    /\ selected = 1

(***************************************************************************)
(* SELECT ACCOUNT HARNESS: one application of AccountManager.selectAccount *)
(* to a manager state drawn from a bounded set.  Each account is in one    *)
(* of eight conditions; the trackers hold an entry for an account only     *)
(* when its condition needs one.                                           *)
(***************************************************************************)
MaxPool == 3
Conditions ==
    {"ok", "disabled", "limited30", "limited60", "expired", "unhealthy",
     "tokenless", "disabledLimited"}

PoolAccount(k, c) ==
    [refreshToken |-> k, accountId |-> k, accessToken |-> k,
     accessTokenExpires |-> SelNow + 3600, lastUsed |-> 0,
     enabled |-> c \notin {"disabled", "disabledLimited"},
     rateLimitResetTime |->
         CASE c = "limited30" -> SelNow + 30
           [] c \in {"limited60", "disabledLimited"} -> SelNow + 60
           [] c = "expired" -> SelNow - 10
           [] OTHER -> 0,
     rateLimitReason |->
         IF c \in {"limited30", "limited60", "expired", "disabledLimited"}
         THEN "RATE_LIMIT_EXCEEDED" ELSE "NONE",
     consecutiveFailures |-> 0]

InitSelect ==
    /\ now = SelNow
    /\ strategy \in {"hybrid", "sticky", "round-robin"}
    /\ \E n \in 0..MaxPool :
          /\ \E c \in [1..n -> Conditions] :
                /\ accounts = [k \in 1..n |-> PoolAccount(k, c[k])]
                /\ scores = [i \in {j \in 0..(n - 1) : c[j + 1] = "unhealthy"} |->
                                [score |-> 40, lastUpdated |-> SelNow,
                                 consecutiveFailures |-> 1]]
                /\ buckets = [i \in {j \in 0..(n - 1) : c[j + 1] = "tokenless"} |->
                                 [tokens |-> 5, lastUpdated |-> SelNow]]
          /\ activeIndex \in IF n = 0 THEN {NULL} ELSE 0..(n - 1)
    /\ saveTimer = 0
    /\ disk = saveToDiskSnapshot(accounts, activeIndex)
    /\ ticks = 0
    /\ req = <<>>
    /\ metrics = <<>>
    /\ currentIndex = NULL
    /\ selected = PENDING
    /\ loaded = TRUE
    /\ calls = <<>>

ApplySelectAccount ==
    /\ selected = PENDING
    /\ accounts' = selectAccountAccounts(accounts, now)
    /\ selected' = selectAccountIndex(accounts', scores, buckets, now,
                                      strategy, activeIndex)
    /\ activeIndex' = selectAccountActive(selected', activeIndex)
    /\ UNCHANGED <<now, buckets, strategy, scores, ioVars, metrics,
                   currentIndex, loadVars>>

NextSelect == ApplySelectAccount

SpecSelect == InitSelect /\ [][NextSelect]_vars

\* C4: under every strategy selectAccount never returns a disabled account,
\* and it returns null exactly when the account set is empty or no account is
\* enabled (so it returns an enabled account even when every enabled account
\* is rate-limited, below the health minimum or out of tokens).
C4_SelectEnabled ==
    selected # PENDING =>
        /\ selected = NULL <=>
              \A k \in 1..Len(accounts) : ~accounts[k].enabled
        /\ selected # NULL =>
              /\ selected \in 0..(Len(accounts) - 1)
              /\ accounts[selected + 1].enabled
C4_Witness ==
    /\ selected \notin {PENDING, NULL}
    /\ strategy = "hybrid"
    /\ Len(accounts) = 3
    /\ ~accounts[1].enabled
    /\ accounts[2].rateLimitResetTime > now
    /\ getTokens(buckets, now, 2) < 1 * TokenScale
    /\ accounts[selected + 1].enabled

(***************************************************************************)
(* LOAD AND ADD ACCOUNT: concurrent load() and addAccount() calls on a     *)
(* fresh manager.  A call runs from one await to the next in one step.     *)
(***************************************************************************)
Calls == {1, 2, 3}
AddTokens ==
    {[refresh |-> 11, access |-> 11, accountId |-> 11, expires |-> InitNow + 3600],
     [refresh |-> 12, access |-> 12, accountId |-> 12, expires |-> InitNow + 3600],
     [refresh |-> 13, access |-> 13, accountId |-> 11, expires |-> InitNow + 3600]}
IdleCall ==
    [pc |-> "idle", kind |-> "none", tokens |-> [refresh |-> 0, access |-> 0, accountId |-> 0, expires |-> 0],
     storage |-> [accounts |-> <<>>, activeIndex |-> 0], result |-> NULL,
     seq |-> 0]

\* deduplicateAccounts: one account per refresh token, the one used last; a
\* Map keeps a key at the position of its first insertion
RECURSIVE deduplicateFrom(_, _, _)
deduplicateFrom(accts, k, out) ==
    IF k > Len(accts) THEN out
    ELSE LET acc == accts[k]
             same == {j \in 1..Len(out) : out[j].refreshToken = acc.refreshToken}
         IN  IF same = {} THEN deduplicateFrom(accts, k + 1, Append(out, acc))
             ELSE LET j == CHOOSE x \in same : TRUE
                  IN  IF acc.lastUsed > out[j].lastUsed
                      THEN deduplicateFrom(accts, k + 1, [out EXCEPT ![j] = acc])
                      ELSE deduplicateFrom(accts, k + 1, out)
deduplicateAccounts(accts) == deduplicateFrom(accts, 1, <<>>)

\* variant: loadAccounts that returns the file's activeIndex as it is
loadAccountsNoClamp(file) ==
    [accounts |-> deduplicateAccounts(file.accounts),
     activeIndex |-> file.activeIndex]

\* loadAccounts: the file's accounts deduplicated, activeIndex clamped
loadAccounts(file) ==
    LET deduped == deduplicateAccounts(file.accounts)
    IN  [accounts |-> deduped,
         activeIndex |-> IF Len(deduped) > 0
                         THEN Min(Max(file.activeIndex, 0), Len(deduped) - 1)
                         ELSE 0]

\* the synchronous start of load(): return at once when loaded, else read
LoadEnter(c) ==
    IF loaded
    THEN [c EXCEPT !.pc = IF c.kind = "load" THEN "done" ELSE "adding"]
    ELSE [c EXCEPT !.pc = "reading"]

\* accountManager.load() is called
CallLoad(p) ==
    /\ calls[p].pc = "idle"
    /\ calls' = [calls EXCEPT ![p] = LoadEnter([@ EXCEPT !.kind = "load"])]
    /\ UNCHANGED <<now, buckets, mgrVars, ioVars, selVars, loaded>>

\* accountManager.addAccount(tokens) is called
CallAddAccount(p) ==
    /\ calls[p].pc = "idle"
    /\ \E tk \in AddTokens :
          calls' = [calls EXCEPT
                       ![p] = LoadEnter([@ EXCEPT !.kind = "add", !.tokens = tk])]
    /\ UNCHANGED <<now, buckets, mgrVars, ioVars, selVars, loaded>>

\* fs.readFile reads the storage file for loadAccounts
LoadRead(p) ==
    /\ calls[p].pc = "reading"
    /\ calls' = [calls EXCEPT ![p].pc = "read", ![p].storage = loadAccounts(disk)]
    /\ UNCHANGED <<now, buckets, mgrVars, ioVars, selVars, loaded>>

\* load() resumes after `await loadAccounts()` and installs what was read
LoadComplete(p) ==
    /\ calls[p].pc = "read"
    /\ accounts' = calls[p].storage.accounts
    /\ activeIndex' = IF Len(calls[p].storage.accounts) > 0
                      THEN calls[p].storage.activeIndex ELSE NULL
    /\ loaded' = TRUE
    /\ calls' = [calls EXCEPT
                    ![p].pc = IF calls[p].kind = "load" THEN "done" ELSE "adding"]
    /\ UNCHANGED <<now, buckets, strategy, scores, ioVars, selVars>>

\* the number of saveToDisk calls started so far
SavesStarted == Cardinality({p \in Calls : calls[p].seq > 0})

\* addAccount resumes after `await this.load()`: update the matching account
\* or push a new one, then start saveToDisk with the state as it is now (seq
\* numbers the saves in the order they start)
AddAccountBody(p) ==
    /\ calls[p].pc = "adding"
    /\ accounts' = addAccountAccounts(accounts, calls[p].tokens)
    /\ scores' = addAccountScores(scores, accounts, calls[p].tokens)
    /\ activeIndex' = addAccountActive(accounts, activeIndex, calls[p].tokens)
    /\ calls' = [calls EXCEPT
                    ![p].pc = "saving",
                    ![p].result = addAccountResult(accounts, calls[p].tokens),
                    ![p].storage = saveToDiskSnapshot(accounts', activeIndex'),
                    ![p].seq = SavesStarted + 1]
    /\ UNCHANGED <<now, buckets, strategy, ioVars, selVars, loaded>>

\* saveAccounts renames its temporary file over the storage file
SaveWritten(p) ==
    /\ calls[p].pc = "saving"
    /\ disk' = calls[p].storage
    /\ calls' = [calls EXCEPT ![p].pc = "done"]
    /\ UNCHANGED <<now, buckets, mgrVars, saveTimer, ticks, req, selVars, loaded>>

\* a fresh manager; the storage file is missing or holds one account
InitLoad ==
    /\ now = InitNow
    /\ strategy = "hybrid"
    /\ accounts = <<>>
    /\ activeIndex = NULL
    /\ scores = <<>>
    /\ buckets = <<>>
    /\ saveTimer = 0
    /\ disk \in {[accounts |-> <<>>, activeIndex |-> 0],
                 [accounts |-> <<StoredAccount(1, CHOOSE st \in StoredChoices :
                                                      st.accessTokenExpires = 0)>>,
                  activeIndex |-> 0]}
    /\ ticks = 0
    /\ req = <<>>
    /\ metrics = <<>>
    /\ currentIndex = NULL
    /\ selected = PENDING
    /\ loaded = FALSE
    /\ calls = [p \in Calls |-> IdleCall]

NextLoad ==
    \/ \E p \in Calls : CallLoad(p)
    \/ \E p \in Calls : CallAddAccount(p)
    \/ \E p \in Calls : LoadRead(p)
    \/ \E p \in Calls : LoadComplete(p)
    \/ \E p \in Calls : AddAccountBody(p)
    \/ \E p \in Calls : SaveWritten(p)

SpecLoad == InitLoad /\ [][NextLoad]_vars

AccountIds(accts) == {accts[k].accountId : k \in 1..Len(accts)}

\* C10: once every load() and addAccount() call has completed, the manager's
\* account set and the storage file hold every account that was added (no
\* load overwrote the in-memory accounts of an earlier one).
C10_AsStated ==
    (\A p \in Calls : calls[p].pc = "done") =>
        \A p \in Calls :
            calls[p].kind = "add" =>
                /\ calls[p].tokens.accountId \in AccountIds(accounts)
                /\ calls[p].tokens.accountId \in AccountIds(disk.accounts)

(***************************************************************************)
(* TRACKER HARNESS: histories of HealthScoreTracker and TokenBucketTracker *)
(* operations and clock advances on one index, from a stored state drawn   *)
(* from a bounded set.  `calls` records the last operation.                *)
(***************************************************************************)
TrackMaxOps == 3
TrackIndices == {0}
TrackScoreChoices == {NULL, 0, 5, 15, 60, 99, 100}
TrackTokenChoices == {NULL, 0, 5, 10, 495, 500}
TrackCosts == {1, 2, 5}
TrackTickSteps == {1, 60, 1800, 3600, 36000}

InitTrack ==
    /\ now = InitNow
    /\ \E c \in [TrackIndices -> TrackScoreChoices] :
          scores = [i \in {j \in TrackIndices : c[j] # NULL} |->
                       [score |-> c[i], lastUpdated |-> InitNow,
                        consecutiveFailures |-> 0]]
    /\ \E c \in [TrackIndices -> TrackTokenChoices] :
          buckets = [i \in {j \in TrackIndices : c[j] # NULL} |->
                        [tokens |-> c[i], lastUpdated |-> InitNow]]
    /\ strategy = "hybrid"
    /\ accounts = <<>>
    /\ activeIndex = NULL
    /\ saveTimer = 0
    /\ disk = [accounts |-> <<>>, activeIndex |-> 0]
    /\ ticks = 0
    /\ req = <<>>
    /\ metrics = <<>>
    /\ currentIndex = NULL
    /\ selected = PENDING
    /\ loaded = FALSE
    /\ calls = [op |-> "none", n |-> 0, index |-> NULL, cost |-> 0, result |-> TRUE]

TrackHealthSuccess(i) ==
    /\ calls.n < TrackMaxOps
    /\ scores' = healthRecordSuccess(scores, now, i)
    /\ calls' = [op |-> "recordSuccess", n |-> calls.n + 1, index |-> i,
                 cost |-> 0, result |-> TRUE]
    /\ UNCHANGED <<now, buckets, strategy, accounts, activeIndex, ioVars, selVars, loaded>>

TrackHealthRateLimit(i) ==
    /\ calls.n < TrackMaxOps
    /\ scores' = healthRecordRateLimit(scores, now, i)
    /\ calls' = [op |-> "recordRateLimit", n |-> calls.n + 1, index |-> i,
                 cost |-> 0, result |-> TRUE]
    /\ UNCHANGED <<now, buckets, strategy, accounts, activeIndex, ioVars, selVars, loaded>>

TrackHealthFailure(i) ==
    /\ calls.n < TrackMaxOps
    /\ scores' = healthRecordFailure(scores, now, i)
    /\ calls' = [op |-> "recordFailure", n |-> calls.n + 1, index |-> i,
                 cost |-> 0, result |-> TRUE]
    /\ UNCHANGED <<now, buckets, strategy, accounts, activeIndex, ioVars, selVars, loaded>>

TrackHealthReset(i) ==
    /\ calls.n < TrackMaxOps
    /\ scores' = healthReset(scores, i)
    /\ calls' = [op |-> "reset", n |-> calls.n + 1, index |-> i,
                 cost |-> 0, result |-> TRUE]
    /\ UNCHANGED <<now, buckets, strategy, accounts, activeIndex, ioVars, selVars, loaded>>

TrackConsume(i) ==
    /\ calls.n < TrackMaxOps
    /\ \E cost \in TrackCosts :
          /\ buckets' = consume(buckets, now, i, cost)
          /\ calls' = [op |-> "consume", n |-> calls.n + 1, index |-> i,
                       cost |-> cost,
                       result |-> consumeResult(buckets, now, i, cost)]
    /\ UNCHANGED <<now, mgrVars, ioVars, selVars, loaded>>

TrackRefund(i) ==
    /\ calls.n < TrackMaxOps
    /\ \E amount \in TrackCosts :
          /\ buckets' = refund(buckets, now, i, amount)
          /\ calls' = [op |-> "refund", n |-> calls.n + 1, index |-> i,
                       cost |-> amount, result |-> TRUE]
    /\ UNCHANGED <<now, mgrVars, ioVars, selVars, loaded>>

TrackTick ==
    /\ calls.n < TrackMaxOps
    /\ \E d \in TrackTickSteps : now' = now + d
    /\ calls' = [op |-> "tick", n |-> calls.n + 1, index |-> NULL,
                 cost |-> 0, result |-> TRUE]
    /\ UNCHANGED <<buckets, mgrVars, ioVars, selVars, loaded>>

NextTrack ==
    \/ \E i \in TrackIndices : TrackHealthSuccess(i)
    \/ \E i \in TrackIndices : TrackHealthRateLimit(i)
    \/ \E i \in TrackIndices : TrackHealthFailure(i)
    \/ \E i \in TrackIndices : TrackHealthReset(i)
    \/ \E i \in TrackIndices : TrackConsume(i)
    \/ \E i \in TrackIndices : TrackRefund(i)
    \/ TrackTick

SpecTrack == InitTrack /\ [][NextTrack]_vars

\* C15: the stored health score is in [0, 100] after every write, and
\* getScore never exceeds 100 and does not decrease while time passes
\* without a write.
C15_HealthBounded ==
    /\ [](\A i \in TrackIndices :
            /\ i \in DOMAIN scores =>
                  (scores[i].score >= 0 /\ scores[i].score <= 100)
            /\ getScore(scores, now, i) <= 100
            /\ getScore(scores, now, i) >= 0)
    /\ [][\A i \in TrackIndices :
            (scores' = scores /\ now' >= now) =>
                getScore(scores', now', i) >= getScore(scores, now, i)]_vars
C15_Witness ==
    /\ calls.op = "recordFailure"
    /\ calls.n = TrackMaxOps
    /\ scores[0].score = 0
    /\ scores[0].lastUpdated > InitNow

\* C16: consume succeeds iff getTokens >= cost at the call; on success the
\* tokens drop by exactly cost, on failure the bucket is unchanged; the token
\* count stays in [0, maxTokens]; reads without writes do not decrease.
C16_BucketConsume ==
    /\ [](\A i \in TrackIndices :
            /\ getTokens(buckets, now, i) >= 0
            /\ getTokens(buckets, now, i) <= 50 * TokenScale
            /\ i \in DOMAIN buckets =>
                  (buckets[i].tokens >= 0 /\ buckets[i].tokens <= 50 * TokenScale))
    /\ [][\A i \in TrackIndices :
            /\ (buckets' = buckets /\ now' >= now) =>
                  getTokens(buckets', now', i) >= getTokens(buckets, now, i)
            /\ (calls'.n = calls.n + 1 /\ calls'.op = "consume" /\ calls'.index = i) =>
                  /\ calls'.result <=>
                        getTokens(buckets, now, i) >= calls'.cost * TokenScale
                  /\ calls'.result =>
                        getTokens(buckets', now', i)
                            = getTokens(buckets, now, i) - calls'.cost * TokenScale
                  /\ ~calls'.result => buckets' = buckets]_vars
C16_Witness ==
    /\ calls.op = "consume"
    /\ ~calls.result
    /\ calls.cost = 2
    /\ getTokens(buckets, now, 0) = 1 * TokenScale + 1

(***************************************************************************)
(* MANAGER HARNESS: sequences of AccountManager operations, one call at a  *)
(* time, on a manager loaded from a storage file drawn from a bounded set. *)
(* `calls` records the last call, its arguments and what it returned.      *)
(***************************************************************************)
MgrMaxOps == 3
MgrCredentials == {11, 21, 12}
MgrTickSteps == {19, 20, 3539, 3540}

\* a stored account with refresh token n; accountId and accessToken optional
MgrStored(n, hasId, hasToken, failures, used) ==
    [refreshToken |-> n, accessToken |-> IF hasToken THEN n ELSE 0,
     accountId |-> IF hasId THEN owner(n) ELSE 0,
     accessTokenExpires |-> IF hasToken THEN InitNow + 3600 ELSE 0,
     lastUsed |-> used, enabled |-> TRUE, rateLimitResetTime |-> 0,
     rateLimitReason |-> "NONE", consecutiveFailures |-> failures]

MgrDiskChoices ==
    {[accounts |-> <<>>, activeIndex |-> 0],
     [accounts |-> <<MgrStored(21, FALSE, FALSE, 0, 0)>>, activeIndex |-> 0],
     [accounts |-> <<MgrStored(11, TRUE, TRUE, 0, 0), MgrStored(12, TRUE, TRUE, 4, 0)>>,
      activeIndex |-> 5],
     [accounts |-> <<MgrStored(11, TRUE, TRUE, 0, 0), MgrStored(11, TRUE, FALSE, 0, 7),
                     MgrStored(12, TRUE, TRUE, 0, 0)>>,
      activeIndex |-> 2]}

\* pending: the refreshAccessToken call an ensureAccessToken is waiting for
\* (the account's index and the refresh token it was called with)
NoPending == [index |-> NULL, token |-> 0]
NoCall ==
    [op |-> "none", n |-> 0, index |-> NULL, result |-> NULL, refreshCalls |-> 0,
     tokens |-> [refresh |-> 0, access |-> 0, accountId |-> 0, expires |-> 0],
     pending |-> NoPending]
Call(op, index, result, refreshCalls, tokens) ==
    [op |-> op, n |-> calls.n + 1, index |-> index, result |-> result,
     refreshCalls |-> refreshCalls, tokens |-> tokens, pending |-> calls.pending]

InitMgr ==
    /\ now = InitNow
    /\ strategy \in {"hybrid", "sticky", "round-robin"}
    /\ disk \in MgrDiskChoices
    /\ accounts = loadAccounts(disk).accounts
    /\ activeIndex = IF Len(accounts) > 0 THEN loadAccounts(disk).activeIndex ELSE NULL
    /\ scores = <<>>
    /\ buckets = <<>>
    /\ saveTimer = 0
    /\ ticks = 0
    /\ req = <<>>
    /\ metrics = <<>>
    /\ currentIndex = NULL
    /\ selected = PENDING
    /\ loaded = TRUE
    /\ calls = NoCall

\* addAccount(tokens) on the loaded manager, to the end of its saveToDisk
MgrAddAccount ==
    /\ calls.n < MgrMaxOps
    /\ \E n \in MgrCredentials, decodes \in BOOLEAN :
          LET tk == [refresh |-> n, access |-> n,
                     accountId |-> IF decodes THEN owner(n) ELSE 0,
                     expires |-> now + 3600]
          IN  /\ accounts' = addAccountAccounts(accounts, tk)
              /\ scores' = addAccountScores(scores, accounts, tk)
              /\ activeIndex' = addAccountActive(accounts, activeIndex, tk)
              /\ disk' = saveToDiskSnapshot(accounts', activeIndex')
              /\ calls' = Call("addAccount", NULL, addAccountResult(accounts, tk), 0, tk)
    /\ UNCHANGED <<now, buckets, strategy, saveTimer, ticks, req, selVars, loaded>>

\* ensureAccessToken(accounts[i]) with a fresh token
MgrEnsureFresh(i) ==
    /\ calls.n < MgrMaxOps
    /\ tokenFresh(accounts[i + 1], now)
    /\ calls' = Call("ensureAccessToken", i, i, 0, NoCall.tokens)
    /\ UNCHANGED <<now, buckets, mgrVars, ioVars, selVars, loaded>>

\* ensureAccessToken(accounts[i]) without a fresh token, up to its await of
\* refreshAccessToken(account.refreshToken)
MgrEnsureStart(i) ==
    /\ calls.n < MgrMaxOps
    /\ calls.pending = NoPending
    /\ ~tokenFresh(accounts[i + 1], now)
    /\ calls' = [calls EXCEPT
                    !.op = "refreshAccessToken",
                    !.pending = [index |-> i, token |-> accounts[i + 1].refreshToken]]
    /\ UNCHANGED <<now, buckets, mgrVars, ioVars, selVars, loaded>>

\* ensureAccessToken(accounts[i]): the refresh fails
MgrEnsureFailed(i) ==
    /\ calls.pending.index = i
    /\ accounts' = recordFailureAccounts(accounts, i)
    /\ scores' = healthRecordFailure(scores, now, i)
    /\ saveTimer' = scheduleSave(now)
    /\ calls' = [Call("ensureAccessToken", i, NULL, 1, NoCall.tokens)
                    EXCEPT !.pending = NoPending]
    /\ UNCHANGED <<now, buckets, strategy, activeIndex, disk, ticks, req, selVars, loaded>>

\* ensureAccessToken(accounts[i]): the refresh succeeds
MgrEnsureRefreshed(i) ==
    /\ calls.pending.index = i
    /\ \E decodes \in BOOLEAN :
          LET old == calls.pending.token
              result == [refresh |-> rotated(old), access |-> rotated(old),
                         expires |-> now + 3600,
                         accountId |-> IF decodes THEN owner(old) ELSE 0]
          IN  /\ accounts' = ensureRefreshedAccounts(accounts, i, result)
              /\ calls' = [Call("ensureAccessToken", i, i, 1, result)
                              EXCEPT !.pending = NoPending]
    /\ saveTimer' = scheduleSave(now)
    /\ UNCHANGED <<now, buckets, strategy, activeIndex, scores, disk, ticks, req,
                   selVars, loaded>>

MgrRecordSuccess(i) ==
    /\ calls.n < MgrMaxOps
    /\ accounts' = recordSuccessAccounts(accounts, now, i)
    /\ scores' = healthRecordSuccess(scores, now, i)
    /\ buckets' = consume(buckets, now, i, 1)
    /\ saveTimer' = scheduleSave(now)
    /\ calls' = Call("recordSuccess", i, NULL, 0, NoCall.tokens)
    /\ UNCHANGED <<now, strategy, activeIndex, disk, ticks, req, selVars, loaded>>

MgrMarkRateLimited(i) ==
    /\ calls.n < MgrMaxOps
    /\ \E reason \in Reasons :
          accounts' = markRateLimitedAccounts(accounts, now, i, reason)
    /\ scores' = healthRecordRateLimit(scores, now, i)
    /\ saveTimer' = scheduleSave(now)
    /\ calls' = Call("markRateLimited", i, NULL, 0, NoCall.tokens)
    /\ UNCHANGED <<now, buckets, strategy, activeIndex, disk, ticks, req, selVars, loaded>>

MgrRecordFailure(i) ==
    /\ calls.n < MgrMaxOps
    /\ accounts' = recordFailureAccounts(accounts, i)
    /\ scores' = healthRecordFailure(scores, now, i)
    /\ saveTimer' = scheduleSave(now)
    /\ calls' = Call("recordFailure", i, NULL, 0, NoCall.tokens)
    /\ UNCHANGED <<now, buckets, strategy, activeIndex, disk, ticks, req, selVars, loaded>>

MgrSelectAccount ==
    /\ calls.n < MgrMaxOps
    /\ accounts' = selectAccountAccounts(accounts, now)
    /\ LET sel == selectAccountIndex(accounts, scores, buckets, now, strategy, activeIndex)
       IN  /\ activeIndex' = selectAccountActive(sel, activeIndex)
           /\ calls' = Call("selectAccount", NULL, sel, 0, NoCall.tokens)
    /\ UNCHANGED <<now, buckets, strategy, scores, ioVars, selVars, loaded>>

\* saveToDisk()
MgrSave ==
    /\ calls.n < MgrMaxOps
    /\ disk' = saveToDiskSnapshot(accounts, activeIndex)
    /\ calls' = Call("saveToDisk", NULL, NULL, 0, NoCall.tokens)
    /\ UNCHANGED <<now, buckets, mgrVars, saveTimer, ticks, req, selVars, loaded>>

\* the process restarts: a new manager loads the storage file
MgrRestart ==
    /\ calls.n < MgrMaxOps
    /\ accounts' = loadAccounts(disk).accounts
    /\ activeIndex' = IF Len(accounts') > 0 THEN loadAccounts(disk).activeIndex ELSE NULL
    /\ scores' = <<>>
    /\ buckets' = <<>>
    /\ saveTimer' = 0
    /\ calls' = [Call("load", NULL, NULL, 0, NoCall.tokens) EXCEPT !.pending = NoPending]
    /\ UNCHANGED <<now, strategy, disk, ticks, req, selVars, loaded>>

MgrTick ==
    /\ calls.n < MgrMaxOps
    /\ \E d \in MgrTickSteps : now' = now + d
    /\ calls' = Call("tick", NULL, NULL, 0, NoCall.tokens)
    /\ UNCHANGED <<buckets, mgrVars, ioVars, selVars, loaded>>

NextMgr ==
    \/ MgrAddAccount
    \/ \E i \in 0..(Len(accounts) - 1) : MgrEnsureFresh(i)
    \/ \E i \in 0..(Len(accounts) - 1) : MgrEnsureStart(i)
    \/ \E i \in 0..(Len(accounts) - 1) : MgrEnsureFailed(i)
    \/ \E i \in 0..(Len(accounts) - 1) : MgrEnsureRefreshed(i)
    \/ \E i \in 0..(Len(accounts) - 1) : MgrRecordSuccess(i)
    \/ \E i \in 0..(Len(accounts) - 1) : MgrMarkRateLimited(i)
    \/ \E i \in 0..(Len(accounts) - 1) : MgrRecordFailure(i)
    \/ MgrSelectAccount
    \/ MgrSave
    \/ MgrRestart
    \/ MgrTick

SpecMgr == InitMgr /\ [][NextMgr]_vars

\* C11: after any sequence of addAccount and ensureAccessToken operations no
\* two distinct accounts of the manager are the same account: no two have
\* equal refresh tokens and no two have equal, present account ids.
C11_AsStated ==
    \A j, k \in 1..Len(accounts) :
        j # k =>
            /\ accounts[j].refreshToken # accounts[k].refreshToken
            /\ ~(accounts[j].accountId # 0
                    /\ accounts[j].accountId = accounts[k].accountId)

\* C14: a save followed by a load gives back the in-memory account sequence
\* and active index as they were immediately before the save.
C14_AsStated ==
    calls.op \in {"saveToDisk", "addAccount"} =>
        /\ loadAccounts(disk).accounts = accounts
        /\ (IF Len(loadAccounts(disk).accounts) > 0
            THEN loadAccounts(disk).activeIndex ELSE NULL) = activeIndex

\* C12: in every state of the loaded manager, a non-empty account set has a
\* valid active index: 0 <= activeIndex < length.
C12_ActiveIndexValid ==
    (loaded /\ Len(accounts) > 0) =>
        (activeIndex # NULL /\ activeIndex >= 0 /\ activeIndex < Len(accounts))
C12_Witness ==
    /\ calls.op = "load"
    /\ calls.n > 0
    /\ Len(disk.accounts) = 3
    /\ Len(accounts) = 2
    /\ disk.activeIndex = 2
    /\ activeIndex = 1

\* C13: addAccount with tokens matching an existing account (same refresh
\* token, or same present accountId) keeps the number of accounts, returns the
\* index of a matching account and leaves that account enabled, with no
\* consecutive failures, no rate-limit reset time or reason and the initial
\* health score; otherwise it appends exactly one account, returns the previous
\* length, and sets activeIndex to 0 if the set was empty and leaves it
\* unchanged if not.
AddAccountReturns == calls'.op = "addAccount" /\ calls'.n = calls.n + 1
MatchingPositions(tk) ==
    {k \in 1..Len(accounts) :
        \/ accounts[k].refreshToken = tk.refresh
        \/ (tk.accountId # 0 /\ accounts[k].accountId = tk.accountId)}
C13_AddAccount ==
    [][AddAccountReturns =>
        IF MatchingPositions(calls'.tokens) # {}
        THEN /\ Len(accounts') = Len(accounts)
             /\ calls'.result + 1 \in MatchingPositions(calls'.tokens)
             /\ accounts'[calls'.result + 1].enabled
             /\ accounts'[calls'.result + 1].consecutiveFailures = 0
             /\ accounts'[calls'.result + 1].rateLimitResetTime = 0
             /\ accounts'[calls'.result + 1].rateLimitReason = "NONE"
             /\ getScore(scores', now', calls'.result) = DEFAULT_HEALTH_CONFIG.initial
        ELSE /\ Len(accounts') = Len(accounts) + 1
             /\ SubSeq(accounts', 1, Len(accounts)) = accounts
             /\ calls'.result = Len(accounts)
             /\ accounts'[Len(accounts')].refreshToken = calls'.tokens.refresh
             /\ activeIndex' = IF Len(accounts) = 0 THEN 0 ELSE activeIndex]_vars
C13_Witness ==
    /\ calls.op = "addAccount"
    /\ calls.n >= 2
    /\ Len(accounts) = 2
    /\ calls.result = 1
    /\ accounts[2].refreshToken = 12
    /\ accounts[2].consecutiveFailures = 0
    /\ 1 \notin DOMAIN scores

\* C17: ensureAccessToken returns the account without a refresh call and
\* without any state change exactly when the account has an access token that
\* expires more than 60 s from now; otherwise it calls refreshAccessToken once,
\* and when the refresh fails it returns null, counts one failure on the
\* account and leaves its three credentials as they are, and when the refresh
\* succeeds it returns the account with all three credentials replaced.
HasFreshToken(acc) ==
    acc.accessToken # 0 /\ acc.accessTokenExpires > now + 60
EnsureReturns == calls'.op = "ensureAccessToken" /\ calls'.n = calls.n + 1
EnsureAwaitsRefresh == calls'.op = "refreshAccessToken" /\ calls'.pending # calls.pending
C17_EnsureAccessToken ==
    [][/\ EnsureAwaitsRefresh =>
            /\ ~HasFreshToken(accounts[calls'.pending.index + 1])
            /\ UNCHANGED <<accounts, activeIndex, scores, buckets, disk, saveTimer>>
       /\ (EnsureReturns /\ calls'.pending = calls.pending) =>
            /\ HasFreshToken(accounts[calls'.index + 1])
            /\ calls'.result = calls'.index
            /\ calls'.refreshCalls = 0
            /\ UNCHANGED <<accounts, activeIndex, scores, buckets, disk, saveTimer>>
       /\ (EnsureReturns /\ calls'.pending # calls.pending) =>
            /\ calls'.refreshCalls = 1
            /\ Len(accounts') = Len(accounts)
            /\ \A k \in 1..Len(accounts) :
                  k # calls'.index + 1 => accounts'[k] = accounts[k]
            /\ IF calls'.result = NULL
               THEN /\ accounts'[calls'.index + 1].consecutiveFailures
                          = accounts[calls'.index + 1].consecutiveFailures + 1
                    /\ accounts'[calls'.index + 1].refreshToken
                          = accounts[calls'.index + 1].refreshToken
                    /\ accounts'[calls'.index + 1].accessToken
                          = accounts[calls'.index + 1].accessToken
                    /\ accounts'[calls'.index + 1].accessTokenExpires
                          = accounts[calls'.index + 1].accessTokenExpires
               ELSE /\ calls'.result = calls'.index
                    /\ accounts'[calls'.index + 1].refreshToken = calls'.tokens.refresh
                    /\ accounts'[calls'.index + 1].accessToken = calls'.tokens.access
                    /\ accounts'[calls'.index + 1].accessTokenExpires
                          = calls'.tokens.expires
                    /\ accounts'[calls'.index + 1].refreshToken
                          # accounts[calls'.index + 1].refreshToken
                    /\ accounts'[calls'.index + 1].consecutiveFailures
                          = accounts[calls'.index + 1].consecutiveFailures]_vars
C17_Witness ==
    /\ calls.op = "ensureAccessToken"
    /\ calls.refreshCalls = 1
    /\ calls.result = calls.index
    /\ accounts[calls.index + 1].refreshToken = calls.tokens.refresh
    /\ accounts[calls.index + 1].accessTokenExpires > now + 60

\* the step in which invocation r receives the answer to its upstream send
ReceiveStep(r) == req[r].pc = "sending" /\ req'[r] # req[r]

\* C18: a 404 whose body classifies as UNKNOWN is returned as it is after that
\* send: the invocation ends with status 404, sends nothing more, selects no
\* account, and no account's fields, health score or token bucket change.
C18_Real404 ==
    [][\A r \in Requests :
          (/\ ReceiveStep(r)
           /\ req'[r].response.status = 404
           /\ classifyRateLimitReason(404, req'[r].response.body) = "UNKNOWN") =>
              /\ req'[r].pc = "done"
              /\ req'[r].result = "response"
              /\ req'[r].surfaced = 404
              /\ req'[r].sends = req[r].sends
              /\ req'[r].account = req[r].account
              /\ UNCHANGED <<accounts, activeIndex, scores, buckets>>]_vars
C18_Witness ==
    \E r \in Requests :
        /\ req[r].pc = "done"
        /\ req[r].response = [status |-> 404, body |-> "not found"]
        /\ req[r].surfaced = 404
        /\ req[r].sends = 1

\* C19: when the response returned to the host comes from a 404 whose body
\* matches the USAGE_LIMIT_REACHED patterns, its status is 429 and the account
\* that received the 404 is marked USAGE_LIMIT_REACHED.
C19_AsStated ==
    [][\A r \in Requests :
          (/\ ReceiveStep(r)
           /\ req'[r].pc = "done"
           /\ req'[r].response.status = 404
           /\ \E pat \in {"usage_limit_reached", "usage_not_included", "usage limit",
                          "exhausted", "quota"} : Includes(req'[r].response.body, pat)) =>
              /\ req'[r].surfaced = 429
              /\ accounts'[req[r].account + 1].rateLimitReason = "USAGE_LIMIT_REACHED"]_vars

\* C20: a response whose status is neither OK nor one of 401, 404, 429, 503,
\* 529 is returned with that status right after the attempt that received it:
\* nothing more is sent and no account's fields, health score or token
\* bucket change.
C20_OtherStatus ==
    [][\A r \in Requests :
          (/\ ReceiveStep(r)
           /\ req'[r].response.status \notin {0, 200, 401, 404, 429, 503, 529}) =>
              /\ req'[r].pc = "done"
              /\ req'[r].result = "response"
              /\ req'[r].surfaced = req'[r].response.status
              /\ req'[r].sends = req[r].sends
              /\ UNCHANGED <<accounts, activeIndex, scores, buckets>>]_vars
C20_Witness ==
    \E r \in Requests :
        /\ req[r].pc = "done"
        /\ req[r].response.status = 500
        /\ req[r].surfaced = 500
        /\ req[r].attempt = 1
        /\ req[r].sends = 2

\* C21: no invocation fails because the request body is not valid JSON (the
\* transformation is skipped and the request is sent as it is).
C21_AsStated ==
    \A r \in Requests : req[r].result # "throw:parse"

\* the step in which invocation r learns that its token refresh has failed
RefreshFailStep(r) ==
    /\ req[r].pc = "refreshing"
    /\ (req'[r].attempt = req[r].attempt + 1 \/ req'[r].pc = "done")
\* C22 as stated: a refresh failure at attempt < MAX_RETRIES does not end the
\* invocation, and an invocation that never sent and has thrown after a
\* refresh failure has used all MAX_RETRIES + 1 attempts.
C22_AsStated ==
    /\ [][\A r \in Requests :
            (RefreshFailStep(r) /\ req[r].attempt < MAX_RETRIES) =>
                req'[r].pc # "done"]_vars
    /\ [](\A r \in Requests :
            (/\ req[r].pc = "done"
             /\ req[r].sends = 0
             /\ req[r].refreshes >= 1) => req[r].refreshes = MAX_RETRIES + 1)
\* C22 amended: a refresh failure counts one failure on the account (disabling
\* it at DisableThreshold) and the invocation goes on with attempt + 1 and an
\* enabled account, unless no enabled account is left (it throws the
\* no-accounts error, at any attempt) or the failed attempt was attempt
\* MAX_RETRIES (it throws the exhausted error).
C22_RefreshFailure ==
    [][\A r \in Requests :
          RefreshFailStep(r) =>
             /\ accounts'[req[r].account + 1].consecutiveFailures
                   = accounts[req[r].account + 1].consecutiveFailures + 1
             /\ accounts'[req[r].account + 1].enabled
                   = (/\ accounts[req[r].account + 1].enabled
                      /\ accounts'[req[r].account + 1].consecutiveFailures
                            < DisableThreshold)
             /\ IF req'[r].pc = "done"
                THEN \/ /\ req'[r].result = "throw:no_accounts"
                        /\ \A k \in 1..Len(accounts') : ~accounts'[k].enabled
                     \/ /\ req'[r].result = "throw:exhausted"
                        /\ req[r].attempt = MAX_RETRIES
                        /\ \E k \in 1..Len(accounts') : accounts'[k].enabled
                ELSE /\ req'[r].attempt = req[r].attempt + 1
                     /\ req'[r].attempt <= MAX_RETRIES
                     /\ accounts'[req'[r].account + 1].enabled]_vars
C22_Witness ==
    \E r \in Requests :
        /\ req[r].pc = "done"
        /\ req[r].result = "throw:no_accounts"
        /\ req[r].refreshes = 1
        /\ req[r].sends = 0
        /\ req[r].attempt = 0

\* C23: when the upstream send rejects (the host cancelled the request), the
\* invocation ends with that error: it sends nothing more, and no account's
\* fields, health score or token bucket, nor the active index, change.
C23_Cancelled ==
    [][\A r \in Requests :
          (ReceiveStep(r) /\ req'[r].branch = "rejected") =>
              /\ req'[r].pc = "done"
              /\ req'[r].result = "throw:network"
              /\ req'[r].sends = req[r].sends
              /\ req'[r].attempt = req[r].attempt
              /\ UNCHANGED <<accounts, activeIndex, scores, buckets, saveTimer>>]_vars
C23_Witness ==
    \E r \in Requests :
        /\ req[r].pc = "done"
        /\ req[r].branch = "rejected"
        /\ req[r].result = "throw:network"
        /\ req[r].attempt = 1
        /\ req[r].sends = 2

(***************************************************************************)
(* CONCURRENT INVOCATIONS: two fetch invocations on a manager with one     *)
(* account, interleaved at their awaits, with no time elapsing.  The       *)
(* account's access token is valid, so no invocation refreshes it.  The    *)
(* body of a rate-limit response is read before any shared state is        *)
(* touched, so the receipt and the dispatch are one step here as well.     *)
(***************************************************************************)
ConcRequests == {1, 2}

InitConc ==
    /\ now = InitNow
    /\ strategy \in {"hybrid", "sticky"}
    /\ accounts = <<StoredAccount(1, CHOOSE st \in StoredChoices :
                                         st.accessTokenExpires # 0)>>
    /\ activeIndex = 0
    /\ scores = <<>>
    /\ buckets = <<>>
    /\ saveTimer = 0
    /\ disk = saveToDiskSnapshot(accounts, activeIndex)
    /\ ticks = 0
    /\ req = [r \in ConcRequests |-> IdleReq]
    /\ metrics = <<>>
    /\ currentIndex = NULL
    /\ selected = PENDING
    /\ loaded = TRUE
    /\ calls = <<>>

NextConc ==
    \/ \E r \in ConcRequests : FetchStart(r)
    \/ \E r \in ConcRequests : Transformed(r)
    \/ \E r \in ConcRequests : SendRejected(r)
    \/ \E r \in ConcRequests : ResponseOk(r)
    \/ \E r \in ConcRequests : ResponseLimit(r)
    \/ \E r \in ConcRequests : ResponseUnauthorized(r)
    \/ \E r \in ConcRequests : ResponseOther(r)

SpecConc == InitConc /\ [][NextConc]_vars

\* the invocations that ended with a success on account a
SucceededOn(a) ==
    {r \in ConcRequests :
        req[r].pc = "done" /\ req[r].branch = "ok" /\ req[r].account = a}
\* the change of account a's health score in a step
ScoreStep(a, delta) ==
    getScore(scores', now', a)
        = Min(DEFAULT_HEALTH_CONFIG.maxScore, Max(0, getScore(scores, now, a) + delta))

\* C24: with concurrent invocations no update of a health score or a token
\* bucket is lost: every success takes one token from the count the previous
\* operation left and adds 1 to the score it left (n successes take n tokens),
\* every rate-limit mark subtracts 10 and every failure 20 from the score the
\* previous operation left, and no other step changes a score or a bucket.
C24_NoLostUpdate ==
    /\ [](\A a \in 0..(Len(accounts) - 1) :
            getTokens(buckets, now, a)
                = (DEFAULT_TOKEN_BUCKET_CONFIG.initialTokens
                      - Cardinality(SucceededOn(a))) * TokenScale)
    /\ [][\A r \in ConcRequests :
            req'[r] # req[r] =>
               /\ \A b \in 0..(Len(accounts) - 1) :
                     b # req[r].account =>
                        /\ getScore(scores', now', b) = getScore(scores, now, b)
                        /\ getTokens(buckets', now', b) = getTokens(buckets, now, b)
               /\ req[r].account # NULL =>
                     IF ReceiveStep(r) /\ req'[r].branch = "ok"
                     THEN /\ ScoreStep(req[r].account, 1)
                          /\ getTokens(buckets', now', req[r].account)
                                = getTokens(buckets, now, req[r].account) - 1 * TokenScale
                     ELSE /\ getTokens(buckets', now', req[r].account)
                                = getTokens(buckets, now, req[r].account)
                          /\ IF ReceiveStep(r) /\ req'[r].branch = "limit"
                             THEN ScoreStep(req[r].account, -10)
                             ELSE IF ReceiveStep(r) /\ req'[r].branch = "auth"
                             THEN ScoreStep(req[r].account, -20)
                             ELSE ScoreStep(req[r].account, 0)]_vars
C24_Witness ==
    /\ \E a \in 0..(Len(accounts) - 1) : SucceededOn(a) = ConcRequests
    /\ \E r \in ConcRequests : req[r].attempt = 1

\* C25: once every call has completed, the storage file holds the snapshot of
\* the save that started last (an older snapshot has not replaced a newer one).
C25_AsStated ==
    (\A p \in Calls : calls[p].pc = "done") =>
        \A p \in Calls :
            (calls[p].seq > 0 /\ calls[p].seq = SavesStarted) =>
                disk = calls[p].storage

(***************************************************************************)
(* ORPHANED TOOL OUTPUTS (model-map.ts).  An input item is a record        *)
(* [type, call_id, name, output, role, content]; "" stands for an absent   *)
(* field.  A call_id is one of a few strings, and String.trim is the       *)
(* table Trim.  An output text is "hi" or "LONG", a text of more than      *)
(* 16000 characters; the content of a converted message is the tuple of    *)
(* the three parts of its template string.                                 *)
(***************************************************************************)
Trim(id) == IF id = " X" THEN "X" ELSE IF id = " " THEN "" ELSE id

\* getCallId: the trimmed call_id, or "" (null) when it is absent or blank
getCallId(item) == Trim(item.call_id)

\* text.slice(0, 16000) + "\n...[truncated]" for a text longer than 16000
Truncated(text) == IF text = "LONG" THEN "LONG[0..16000]...[truncated]" ELSE text

\* variant: a conversion that leaves the item a tool output
convertOrphanedOutputKeepType(item, callId) ==
    [item EXCEPT !.output = Truncated(item.output) \o "!"]

convertOrphanedOutputToMessage(item, callId) ==
    [type |-> "message", call_id |-> "", name |-> "", output |-> "",
     role |-> "assistant",
     content |-> <<IF item.name = "" THEN "tool" ELSE item.name,
                   IF callId = "" THEN "unknown" ELSE callId,
                   Truncated(item.output)>>]

\* the call ids of the items of one type
CallIds(input, type) ==
    {getCallId(input[k]) : k \in {j \in 1..Len(input) : input[j].type = type}} \ {""}

\* variant: a function_call_output is matched against function_call items only
normalizeOrphanedSameTypeOnly(input) ==
    LET Orphaned(item) ==
            LET cid == getCallId(item)
            IN  \/ /\ item.type = "function_call_output"
                   /\ (cid = "" \/ cid \notin CallIds(input, "function_call"))
                \/ /\ item.type = "custom_tool_call_output"
                   /\ (cid = "" \/ cid \notin CallIds(input, "custom_tool_call"))
                \/ /\ item.type = "local_shell_call_output"
                   /\ (cid = "" \/ cid \notin CallIds(input, "local_shell_call"))
    IN  [k \in 1..Len(input) |->
            IF Orphaned(input[k])
            THEN convertOrphanedOutputToMessage(input[k], getCallId(input[k]))
            ELSE input[k]]

normalizeOrphanedToolOutputs(input) ==
    LET functionCallIds == CallIds(input, "function_call")
        localShellCallIds == CallIds(input, "local_shell_call")
        customToolCallIds == CallIds(input, "custom_tool_call")
        Orphaned(item) ==
            LET cid == getCallId(item)
            IN  \/ /\ item.type = "function_call_output"
                   /\ (cid = "" \/ (cid \notin functionCallIds
                                      /\ cid \notin localShellCallIds))
                \/ /\ item.type = "custom_tool_call_output"
                   /\ (cid = "" \/ cid \notin customToolCallIds)
                \/ /\ item.type = "local_shell_call_output"
                   /\ (cid = "" \/ cid \notin localShellCallIds)
    IN  [k \in 1..Len(input) |->
            IF Orphaned(input[k])
            THEN convertOrphanedOutputToMessage(input[k], getCallId(input[k]))
            ELSE input[k]]

MaxItems == 3
CallTypes == {"function_call", "local_shell_call", "custom_tool_call"}
OutputTypes ==
    {"function_call_output", "local_shell_call_output", "custom_tool_call_output"}
CallIdChoices == {"", "X", " X", "Y"}
InputItems ==
    {[type |-> t, call_id |-> c, name |-> "shell", output |-> "", role |-> "",
      content |-> <<>>] : t \in CallTypes, c \in CallIdChoices}
    \cup {[type |-> t, call_id |-> c, name |-> n, output |-> o, role |-> "",
           content |-> <<>>] :
             t \in OutputTypes, c \in {"", "X", " X"}, n \in {""}, o \in {"hi", "LONG"}}
    \cup {[type |-> "function_call_output", call_id |-> "Y", name |-> "shell",
           output |-> "hi", role |-> "", content |-> <<>>],
          [type |-> "message", call_id |-> "", name |-> "", output |-> "",
           role |-> "user", content |-> <<"hello">>]}

\* the harness: `calls` holds the input, the result of one application and
\* the result of a second application to that result
InitOrphan ==
    /\ now = InitNow
    /\ strategy = "hybrid"
    /\ accounts = <<>>
    /\ activeIndex = NULL
    /\ scores = <<>>
    /\ buckets = <<>>
    /\ saveTimer = 0
    /\ disk = [accounts |-> <<>>, activeIndex |-> 0]
    /\ ticks = 0
    /\ req = <<>>
    /\ metrics = <<>>
    /\ currentIndex = NULL
    /\ selected = PENDING
    /\ loaded = TRUE
    /\ \E n \in 0..MaxItems :
          \E input \in [1..n -> InputItems] :
              calls = [stage |-> 0, input |-> input, once |-> <<>>, twice |-> <<>>]

NormalizeOnce ==
    /\ calls.stage = 0
    /\ calls' = [calls EXCEPT !.stage = 1,
                              !.once = normalizeOrphanedToolOutputs(calls.input)]
    /\ UNCHANGED <<now, buckets, mgrVars, ioVars, selVars, loaded>>

NormalizeTwice ==
    /\ calls.stage = 1
    /\ calls' = [calls EXCEPT !.stage = 2,
                              !.twice = normalizeOrphanedToolOutputs(calls.once)]
    /\ UNCHANGED <<now, buckets, mgrVars, ioVars, selVars, loaded>>

NextOrphan ==
    \/ NormalizeOnce
    \/ NormalizeTwice

SpecOrphan == InitOrphan /\ [][NextOrphan]_vars

\* C26: applying normalizeOrphanedToolOutputs to its own result gives that
\* result again.
C26_Idempotent ==
    calls.stage = 2 => calls.twice = calls.once
C26_Witness ==
    /\ calls.stage = 2
    /\ Len(calls.input) = 3
    /\ calls.once[1] = calls.input[1]
    /\ calls.once[2] = calls.input[2]
    /\ calls.input[2].type = "function_call_output"
    /\ calls.once[3] # calls.input[3]
    /\ calls.once[3].content = <<"tool", "X", "LONG[0..16000]...[truncated]">>

(***************************************************************************)
(* MODEL NORMALISATION (request-transformer.ts, model-map.ts).  A model    *)
(* string is the sequence of its words, digits and punctuation marks, so   *)
(* String.includes is the search for a contiguous subsequence;             *)
(* toLowerCase is the table LowerWord applied to every element.            *)
(***************************************************************************)
MODEL_MAP ==
    {
     <<<<"gpt", "-", "5", ".", "1", "-", "codex">>, <<"gpt", "-", "5", ".", "1", "-", "codex">>>>,
     <<<<"gpt", "-", "5", ".", "1", "-", "codex", "-", "low">>, <<"gpt", "-", "5", ".", "1", "-", "codex">>>>,
     <<<<"gpt", "-", "5", ".", "1", "-", "codex", "-", "medium">>, <<"gpt", "-", "5", ".", "1", "-", "codex">>>>,
     <<<<"gpt", "-", "5", ".", "1", "-", "codex", "-", "high">>, <<"gpt", "-", "5", ".", "1", "-", "codex">>>>,
     <<<<"gpt", "-", "5", ".", "1", "-", "codex", "-", "max">>, <<"gpt", "-", "5", ".", "1", "-", "codex", "-", "max">>>>,
     <<<<"gpt", "-", "5", ".", "1", "-", "codex", "-", "max", "-", "low">>, <<"gpt", "-", "5", ".", "1", "-", "codex", "-", "max">>>>,
     <<<<"gpt", "-", "5", ".", "1", "-", "codex", "-", "max", "-", "medium">>, <<"gpt", "-", "5", ".", "1", "-", "codex", "-", "max">>>>,
     <<<<"gpt", "-", "5", ".", "1", "-", "codex", "-", "max", "-", "high">>, <<"gpt", "-", "5", ".", "1", "-", "codex", "-", "max">>>>,
     <<<<"gpt", "-", "5", ".", "1", "-", "codex", "-", "max", "-", "xhigh">>, <<"gpt", "-", "5", ".", "1", "-", "codex", "-", "max">>>>,
     <<<<"gpt", "-", "5", ".", "2">>, <<"gpt", "-", "5", ".", "2">>>>,
     <<<<"gpt", "-", "5", ".", "2", "-", "none">>, <<"gpt", "-", "5", ".", "2">>>>,
     <<<<"gpt", "-", "5", ".", "2", "-", "low">>, <<"gpt", "-", "5", ".", "2">>>>,
     <<<<"gpt", "-", "5", ".", "2", "-", "medium">>, <<"gpt", "-", "5", ".", "2">>>>,
     <<<<"gpt", "-", "5", ".", "2", "-", "high">>, <<"gpt", "-", "5", ".", "2">>>>,
     <<<<"gpt", "-", "5", ".", "2", "-", "xhigh">>, <<"gpt", "-", "5", ".", "2">>>>,
     <<<<"gpt", "-", "5", ".", "2", "-", "codex">>, <<"gpt", "-", "5", ".", "2", "-", "codex">>>>,
     <<<<"gpt", "-", "5", ".", "2", "-", "codex", "-", "low">>, <<"gpt", "-", "5", ".", "2", "-", "codex">>>>,
     <<<<"gpt", "-", "5", ".", "2", "-", "codex", "-", "medium">>, <<"gpt", "-", "5", ".", "2", "-", "codex">>>>,
     <<<<"gpt", "-", "5", ".", "2", "-", "codex", "-", "high">>, <<"gpt", "-", "5", ".", "2", "-", "codex">>>>,
     <<<<"gpt", "-", "5", ".", "2", "-", "codex", "-", "xhigh">>, <<"gpt", "-", "5", ".", "2", "-", "codex">>>>,
     <<<<"gpt", "-", "5", ".", "1", "-", "codex", "-", "mini">>, <<"gpt", "-", "5", ".", "1", "-", "codex", "-", "mini">>>>,
     <<<<"gpt", "-", "5", ".", "1", "-", "codex", "-", "mini", "-", "medium">>, <<"gpt", "-", "5", ".", "1", "-", "codex", "-", "mini">>>>,
     <<<<"gpt", "-", "5", ".", "1", "-", "codex", "-", "mini", "-", "high">>, <<"gpt", "-", "5", ".", "1", "-", "codex", "-", "mini">>>>,
     <<<<"gpt", "-", "5", ".", "1">>, <<"gpt", "-", "5", ".", "1">>>>,
     <<<<"gpt", "-", "5", ".", "1", "-", "none">>, <<"gpt", "-", "5", ".", "1">>>>,
     <<<<"gpt", "-", "5", ".", "1", "-", "low">>, <<"gpt", "-", "5", ".", "1">>>>,
     <<<<"gpt", "-", "5", ".", "1", "-", "medium">>, <<"gpt", "-", "5", ".", "1">>>>,
     <<<<"gpt", "-", "5", ".", "1", "-", "high">>, <<"gpt", "-", "5", ".", "1">>>>,
     <<<<"gpt", "-", "5", ".", "1", "-", "chat", "-", "latest">>, <<"gpt", "-", "5", ".", "1">>>>,
     <<<<"gpt", "-", "5", "-", "codex">>, <<"gpt", "-", "5", ".", "1", "-", "codex">>>>,
     <<<<"codex", "-", "mini", "-", "latest">>, <<"gpt", "-", "5", ".", "1", "-", "codex", "-", "mini">>>>,
     <<<<"gpt", "-", "5", "-", "codex", "-", "mini">>, <<"gpt", "-", "5", ".", "1", "-", "codex", "-", "mini">>>>,
     <<<<"gpt", "-", "5", "-", "codex", "-", "mini", "-", "medium">>, <<"gpt", "-", "5", ".", "1", "-", "codex", "-", "mini">>>>,
     <<<<"gpt", "-", "5", "-", "codex", "-", "mini", "-", "high">>, <<"gpt", "-", "5", ".", "1", "-", "codex", "-", "mini">>>>,
     <<<<"gpt", "-", "5">>, <<"gpt", "-", "5", ".", "1">>>>,
     <<<<"gpt", "-", "5", "-", "mini">>, <<"gpt", "-", "5", ".", "1">>>>,
     <<<<"gpt", "-", "5", "-", "nano">>, <<"gpt", "-", "5", ".", "1">>>>
    }

LowerWord(w) ==
    CASE w = "GPT" -> "gpt"
      [] w = "CODEX" -> "codex"
      [] w = "Codex" -> "codex"
      [] w = "MAX" -> "max"
      [] w = "Mini" -> "mini"
      [] OTHER -> w
toLowerCase(str) == [k \in 1..Len(str) |-> LowerWord(str[k])]

\* String.includes
includes(str, pattern) ==
    \E k \in 0..(Len(str) - Len(pattern)) :
        SubSeq(str, k + 1, k + Len(pattern)) = pattern

\* model.split("/").pop()
lastSegment(str) ==
    LET slashes == {k \in 1..Len(str) : str[k] = "/"}
    IN  IF slashes = {} THEN str
        ELSE SubSeq(str, (CHOOSE k \in slashes : \A j \in slashes : j <= k) + 1,
                    Len(str))

\* getNormalizedModel: the value of the key equal to modelId, or else of the
\* key equal to it without regard to case; <<>> stands for undefined
getNormalizedModel(modelId) ==
    IF \E e \in MODEL_MAP : e[1] = modelId
    THEN (CHOOSE e \in MODEL_MAP : e[1] = modelId)[2]
    ELSE IF \E e \in MODEL_MAP : toLowerCase(e[1]) = toLowerCase(modelId)
    THEN (CHOOSE e \in MODEL_MAP : toLowerCase(e[1]) = toLowerCase(modelId))[2]
    ELSE <<>>

\* the substring ladder of normalizeModel, in its order
ModelLadder ==
    <<
      <<{<<"gpt", "-", "5", ".", "2", "-", "codex">>, <<"gpt", " ", "5", ".", "2", " ", "codex">>}, <<"gpt", "-", "5", ".", "2", "-", "codex">>>>,
      <<{<<"gpt", "-", "5", ".", "2">>, <<"gpt", " ", "5", ".", "2">>}, <<"gpt", "-", "5", ".", "2">>>>,
      <<{<<"gpt", "-", "5", ".", "1", "-", "codex", "-", "max">>, <<"gpt", " ", "5", ".", "1", " ", "codex", " ", "max">>}, <<"gpt", "-", "5", ".", "1", "-", "codex", "-", "max">>>>,
      <<{<<"gpt", "-", "5", ".", "1", "-", "codex", "-", "mini">>, <<"gpt", " ", "5", ".", "1", " ", "codex", " ", "mini">>}, <<"gpt", "-", "5", ".", "1", "-", "codex", "-", "mini">>>>,
      <<{<<"codex", "-", "mini", "-", "latest">>, <<"gpt", "-", "5", "-", "codex", "-", "mini">>, <<"gpt", " ", "5", " ", "codex", " ", "mini">>}, <<"codex", "-", "mini", "-", "latest">>>>,
      <<{<<"gpt", "-", "5", ".", "1", "-", "codex">>, <<"gpt", " ", "5", ".", "1", " ", "codex">>}, <<"gpt", "-", "5", ".", "1", "-", "codex">>>>,
      <<{<<"gpt", "-", "5", ".", "1">>, <<"gpt", " ", "5", ".", "1">>}, <<"gpt", "-", "5", ".", "1">>>>,
      <<{<<"codex">>}, <<"gpt", "-", "5", ".", "1", "-", "codex">>>>,
      <<{<<"gpt", "-", "5">>, <<"gpt", " ", "5">>}, <<"gpt", "-", "5", ".", "1">>>>
    >>

RECURSIVE ladderFrom(_, _)
ladderFrom(n, k) ==
    IF k > Len(ModelLadder) THEN <<"gpt", "-", "5", ".", "1">>
    ELSE IF \E pat \in ModelLadder[k][1] : includes(n, pat) THEN ModelLadder[k][2]
    ELSE ladderFrom(n, k + 1)

\* normalizeModel; <<>> stands for an undefined or empty model
normalizeModel(model) ==
    IF model = <<>> THEN <<"gpt", "-", "5", ".", "1">>
    ELSE LET modelId == IF includes(model, <<"/">>) THEN lastSegment(model) ELSE model
             mapped == getNormalizedModel(modelId)
         IN  IF mapped # <<>> THEN mapped
             ELSE ladderFrom(toLowerCase(modelId), 1)

\* the model strings tried: every key of MODEL_MAP, no model, and strings
\* that are not keys
ModelInputs ==
    {e[1] : e \in MODEL_MAP} \cup {<<>>} \cup
    {
     <<"gpt", "-", "5", "-", "codex", "-", "mini", "-", "low">>,
     <<"GPT", " ", "5", " ", "Codex", " ", "Mini">>,
     <<"openai", "/", "gpt", "-", "5", ".", "2", "-", "codex">>,
     <<"gpt", " ", "5", ".", "2", " ", "codex">>,
     <<"gpt", " ", "5", ".", "2">>,
     <<"gpt", " ", "5", ".", "1", " ", "codex", " ", "max">>,
     <<"gpt", " ", "5", ".", "1", " ", "codex", " ", "mini">>,
     <<"gpt", " ", "5", ".", "1", " ", "codex">>,
     <<"gpt", " ", "5", ".", "1">>,
     <<"gpt", " ", "5">>,
     <<"my", "-", "codex">>,
     <<"claude">>,
     <<"GPT", "-", "5", ".", "1", "-", "CODEX", "-", "MAX">>,
     <<"openai", "/", "gpt", "-", "5", "-", "codex", "-", "mini", "-", "low">>,
     <<"gpt", "-", "5", ".", "3">>,
     <<"openai", "/", "codex", "-", "mini", "-", "latest", "-", "2">>,
     <<"gpt", "-", "5", ".", "2", "-", "codex", "-", "turbo">>,
     <<"gpt", "-", "5", ".", "1", "-", "codex", "-", "max", "-", "ultra">>,
     <<"gpt", "-", "5", ".", "1", "-", "codex", "-", "mini", "-", "low">>,
     <<"gpt", "-", "5", ".", "1", "-", "codex", "-", "xhigh">>,
     <<"gpt", "-", "5", ".", "1", "-", "xhigh">>,
     <<"gpt", "-", "5", ".", "2", "-", "turbo">>
    }

\* the harness: `calls` holds the model string, its normalisation and the
\* normalisation of that
InitModel ==
    /\ now = InitNow
    /\ strategy = "hybrid"
    /\ accounts = <<>>
    /\ activeIndex = NULL
    /\ scores = <<>>
    /\ buckets = <<>>
    /\ saveTimer = 0
    /\ disk = [accounts |-> <<>>, activeIndex |-> 0]
    /\ ticks = 0
    /\ req = <<>>
    /\ metrics = <<>>
    /\ currentIndex = NULL
    /\ selected = PENDING
    /\ loaded = TRUE
    /\ \E m \in ModelInputs :
          calls = [stage |-> 0, model |-> m, once |-> <<>>, twice |-> <<>>]

NormalizeModelOnce ==
    /\ calls.stage = 0
    /\ calls' = [calls EXCEPT !.stage = 1, !.once = normalizeModel(calls.model)]
    /\ UNCHANGED <<now, buckets, mgrVars, ioVars, selVars, loaded>>

NormalizeModelTwice ==
    /\ calls.stage = 1
    /\ calls' = [calls EXCEPT !.stage = 2, !.twice = normalizeModel(calls.once)]
    /\ UNCHANGED <<now, buckets, mgrVars, ioVars, selVars, loaded>>

NextModel ==
    \/ NormalizeModelOnce
    \/ NormalizeModelTwice

SpecModel == InitModel /\ [][NextModel]_vars

\* C27: normalizeModel applied to its own result gives that result again.
C27_AsStated ==
    calls.stage = 2 => calls.twice = calls.once

(***************************************************************************)
(* SSE TO JSON (response-handler.ts).  The text of a stream is the         *)
(* sequence of its lines.  A line is [kind, type, response]: kind "data"   *)
(* is a line `data: <JSON object>` with the object's type and response     *)
(* fields, "badjson" a `data: ` line whose rest does not parse, "other"    *)
(* any line without the `data: ` prefix.  The response "null" stands for   *)
(* a missing or null (falsy) response field.                               *)
(***************************************************************************)
TerminalTypes == {"response.done", "response.completed"}

\* the lines the loop of parseSseStream returns at
TerminalLines(lines) ==
    {k \in 1..Len(lines) : lines[k].kind = "data" /\ lines[k].type \in TerminalTypes}

\* variant: parseSseStream that knows only the type response.done
parseSseStreamDoneOnly(lines) ==
    LET hits == {k \in 1..Len(lines) :
                    lines[k].kind = "data" /\ lines[k].type = "response.done"}
    IN  IF hits = {} THEN "null"
        ELSE lines[CHOOSE k \in hits : \A j \in hits : k <= j].response

\* parseSseStream: data.response of the first line that parses and has a
\* terminal type; null when there is none
parseSseStream(lines) ==
    LET hits == TerminalLines(lines)
    IN  IF hits = {} THEN "null"
        ELSE lines[CHOOSE k \in hits : \A j \in hits : k <= j].response

\* convertSseToJson: the Response it returns: json says whether the content
\* type is application/json, and the body is JSON.stringify(response) when it
\* is and the stream text when it is not
convertSseToJson(lines) ==
    LET finalResponse == parseSseStream(lines)
    IN  IF finalResponse = "null"
        THEN [json |-> FALSE, response |-> "null", text |-> lines]
        ELSE [json |-> TRUE, response |-> finalResponse, text |-> <<>>]

MaxEvents == 4
SseLines ==
    {[kind |-> "data", type |-> "response.created", response |-> "R0"],
     [kind |-> "data", type |-> "response.output_text.delta", response |-> "null"],
     [kind |-> "badjson", type |-> "", response |-> "null"],
     [kind |-> "other", type |-> "", response |-> "null"]}
    \cup {[kind |-> "data", type |-> t, response |-> r] :
             t \in TerminalTypes, r \in {"R1", "R2", "null"}}

\* the harness: `calls` holds the stream and the converter's result
InitSse ==
    /\ now = InitNow
    /\ strategy = "hybrid"
    /\ accounts = <<>>
    /\ activeIndex = NULL
    /\ scores = <<>>
    /\ buckets = <<>>
    /\ saveTimer = 0
    /\ disk = [accounts |-> <<>>, activeIndex |-> 0]
    /\ ticks = 0
    /\ req = <<>>
    /\ metrics = <<>>
    /\ currentIndex = NULL
    /\ selected = PENDING
    /\ loaded = TRUE
    /\ \E n \in 0..MaxEvents :
          \E lines \in [1..n -> SseLines] :
              calls = [stage |-> 0, lines |-> lines,
                       out |-> [json |-> FALSE, response |-> "null", text |-> <<>>]]

ConvertSse ==
    /\ calls.stage = 0
    /\ calls' = [calls EXCEPT !.stage = 1, !.out = convertSseToJson(calls.lines)]
    /\ UNCHANGED <<now, buckets, mgrVars, ioVars, selVars, loaded>>

NextSse == ConvertSse

SpecSse == InitSse /\ [][NextSse]_vars

\* the stream ends with a response.completed event
EndsCompleted ==
    /\ Len(calls.lines) > 0
    /\ calls.lines[Len(calls.lines)].kind = "data"
    /\ calls.lines[Len(calls.lines)].type = "response.completed"
\* C28 as stated: for a stream whose last event is response.completed with
\* a response R the converter emits R as JSON, whatever precedes that event.
C28_AsStated ==
    (/\ calls.stage = 1
     /\ EndsCompleted
     /\ calls.lines[Len(calls.lines)].response # "null") =>
        calls.out = [json |-> TRUE, response |-> calls.lines[Len(calls.lines)].response, text |-> <<>>]
\* C28 amended: the converter emits the response of the first event of type
\* response.done or response.completed, and the stream text as it is when
\* there is no such event or that response is missing; so for a stream ending
\* with response.completed and a present R it emits R when no earlier event
\* has one of these two types.
C28_FirstTerminal ==
    calls.stage = 1 =>
        /\ (/\ EndsCompleted
            /\ calls.lines[Len(calls.lines)].response # "null"
            /\ TerminalLines(calls.lines) = {Len(calls.lines)}) =>
               calls.out = [json |-> TRUE,
                            response |-> calls.lines[Len(calls.lines)].response, text |-> <<>>]
        /\ \A k \in TerminalLines(calls.lines) :
              (\A j \in TerminalLines(calls.lines) : k <= j) =>
                  calls.out = IF calls.lines[k].response = "null"
                              THEN [json |-> FALSE, response |-> "null", text |-> calls.lines]
                              ELSE [json |-> TRUE, response |-> calls.lines[k].response, text |-> <<>>]
        /\ TerminalLines(calls.lines) = {} =>
              calls.out = [json |-> FALSE, response |-> "null", text |-> calls.lines]
C28_Witness ==
    /\ calls.stage = 1
    /\ Len(calls.lines) = 4
    /\ calls.lines[1].type = "response.created"
    /\ calls.lines[2].kind = "other"
    /\ calls.lines[3].kind = "badjson"
    /\ calls.lines[4] = [kind |-> "data", type |-> "response.completed", response |-> "R1"]
    /\ calls.out = [json |-> TRUE, response |-> "R1", text |-> <<>>]

\* the step in which invocation r handles a 401 response
AuthStep(r) == ReceiveStep(r) /\ req'[r].branch = "auth"
\* C29: a 401 from account a counts one failure on a and does not mark it
\* rate-limited; and when attempt < MAX_RETRIES and another enabled account
\* that is not rate-limited exists, the next attempt uses an account other
\* than a.
C29_AsStated ==
    [][\A r \in Requests :
          AuthStep(r) =>
             /\ accounts'[req[r].account + 1].consecutiveFailures
                   = accounts[req[r].account + 1].consecutiveFailures + 1
             /\ accounts[req[r].account + 1].rateLimitResetTime = 0 =>
                   accounts'[req[r].account + 1].rateLimitResetTime = 0
             /\ (/\ req[r].attempt < MAX_RETRIES
                 /\ \E k \in 1..Len(accounts) :
                       /\ k # req[r].account + 1
                       /\ accounts'[k].enabled
                       /\ (accounts'[k].rateLimitResetTime = 0
                              \/ now >= accounts'[k].rateLimitResetTime)) =>
                   /\ req'[r].pc # "done"
                   /\ req'[r].account # req[r].account]_vars

\* ---- facts about one selectAccount call of the manager ----
SelectStep == calls'.op = "selectAccount" /\ calls'.n = calls.n + 1
Marked(k) == accounts[k].rateLimitResetTime # 0
BackoffElapsed(k) == now >= accounts[k].rateLimitResetTime
\* account k passes the filter of the selector in use
Eligible(k) ==
    /\ accounts[k].enabled
    /\ ~Marked(k) \/ BackoffElapsed(k)
    /\ (strategy = "hybrid" /\ Len(accounts) > 1) =>
          /\ getScore(scores, now, k - 1) >= DEFAULT_HEALTH_CONFIG.minUsable
          /\ getTokens(buckets, now, k - 1) >= 1 * TokenScale

\* C30: the selectors exclude an account as rate-limited exactly while
\* now < rateLimitResetTime: a selectAccount call at or after the reset time
\* clears rateLimitResetTime and rateLimitReason of the account, a call before
\* it leaves the account marked and returns it only when no account passes the
\* selector's filter, and whenever an account passes the filter (an account
\* whose backoff has elapsed included) the call returns such an account.
C30_Backoff ==
    [][SelectStep =>
          /\ \A k \in 1..Len(accounts) :
                /\ (Marked(k) /\ BackoffElapsed(k)) =>
                      /\ accounts'[k].rateLimitResetTime = 0
                      /\ accounts'[k].rateLimitReason = "NONE"
                /\ (Marked(k) /\ ~BackoffElapsed(k)) =>
                      /\ accounts'[k] = accounts[k]
                      /\ calls'.result = k - 1 =>
                            \A j \in 1..Len(accounts) : ~Eligible(j)
          /\ (\E j \in 1..Len(accounts) : Eligible(j)) =>
                /\ calls'.result # NULL
                /\ Eligible(calls'.result + 1)]_vars
\* a selectAccount call made exactly at the reset time of an account that
\* markRateLimited had marked returned that account, with the mark cleared
C30_Witness ==
    /\ calls.op = "selectAccount"
    /\ now = InitNow + BACKOFF.SERVER_ERROR_MS
    /\ \E i \in DOMAIN scores :
          /\ scores[i].score = DEFAULT_HEALTH_CONFIG.initial
                                  + DEFAULT_HEALTH_CONFIG.rateLimitPenalty
          /\ scores[i].lastUpdated = InitNow
          /\ calls.result = i
          /\ accounts[i + 1].rateLimitResetTime = 0
          /\ accounts[i + 1].rateLimitReason = "NONE"

\* ---- facts about one selectAccount call in the select-account harness ----
SelectApplied == selected = PENDING /\ selected' # PENDING
\* the strategy's selector found no account (on the accounts as isRateLimited left them)
SelectorNull ==
    SelectorResult(accounts', scores, buckets, now, strategy, activeIndex) = NULL
\* account k's reset time precedes account j's, an undefined one being the latest
SoonerOrSame(k, j) ==
    \/ accounts'[j].rateLimitResetTime = 0
    \/ /\ accounts'[k].rateLimitResetTime # 0
       /\ accounts'[k].rateLimitResetTime <= accounts'[j].rateLimitResetTime

\* C31: when the selector returns null and some account is enabled,
\* selectAccount returns the enabled account with the smallest
\* rateLimitResetTime (an absent reset time counting as the largest), the
\* smaller index winning a tie, and makes it the active account.
C31_Fallback ==
    [][(SelectApplied /\ SelectorNull
           /\ \E k \in 1..Len(accounts) : accounts[k].enabled) =>
          /\ selected' \in 0..(Len(accounts) - 1)
          /\ accounts'[selected' + 1].enabled
          /\ \A j \in 1..Len(accounts) :
                accounts'[j].enabled =>
                   /\ SoonerOrSame(selected' + 1, j)
                   /\ SoonerOrSame(j, selected' + 1) => selected' + 1 <= j
          /\ activeIndex' = selected']_vars
\* the fallback chose the first of two enabled accounts with equal reset times
\* while a third resets later
C31_Witness ==
    /\ selected = 1
    /\ activeIndex = 1
    /\ Len(accounts) = 3
    /\ strategy = "round-robin"
    /\ ~accounts[1].enabled
    /\ accounts[2].enabled /\ accounts[3].enabled
    /\ accounts[2].rateLimitResetTime = SelNow + 30
    /\ accounts[3].rateLimitResetTime = SelNow + 30

\* C36: when the selector returns null but some enabled account is not
\* rate-limited (it only fails the health or token filter), the account
\* selectAccount falls back to is not rate-limited either.
C36_AsStated ==
    [][(SelectApplied /\ SelectorNull
           /\ \E k \in 1..Len(accounts) :
                 accounts'[k].enabled /\ ~isRateLimited(accounts'[k], now)) =>
          /\ selected' # NULL
          /\ ~isRateLimited(accounts'[selected' + 1], now)]_vars

(***************************************************************************)
(* ROUND-ROBIN HARNESS: repeated selectAccount calls under the round-robin *)
(* strategy on a pool that nothing else changes.  `calls` is the sequence  *)
(* of indices returned so far.                                             *)
(***************************************************************************)
MaxRounds == 5
RoundRobinPool == 4
RoundRobinConditions == {"ok", "disabled", "limited30", "expired"}

InitRoundRobin ==
    /\ now = SelNow
    /\ strategy = "round-robin"
    /\ \E n \in 0..RoundRobinPool :
          /\ \E c \in [1..n -> RoundRobinConditions] :
                accounts = [k \in 1..n |-> PoolAccount(k, c[k])]
          /\ activeIndex \in IF n = 0 THEN {NULL} ELSE 0..(n - 1)
    /\ scores = <<>>
    /\ buckets = <<>>
    /\ saveTimer = 0
    /\ disk = saveToDiskSnapshot(accounts, activeIndex)
    /\ ticks = 0
    /\ req = <<>>
    /\ metrics = <<>>
    /\ currentIndex = NULL
    /\ selected = PENDING
    /\ loaded = TRUE
    /\ calls = <<>>

\* selectAccount()
RoundRobinSelect ==
    /\ Len(calls) < MaxRounds
    /\ accounts' = selectAccountAccounts(accounts, now)
    /\ selected' = selectAccountIndex(accounts, scores, buckets, now,
                                      strategy, activeIndex)
    /\ activeIndex' = selectAccountActive(selected', activeIndex)
    /\ calls' = Append(calls, selected')
    /\ UNCHANGED <<now, buckets, strategy, scores, ioVars, metrics,
                   currentIndex, loaded>>

NextRoundRobin == RoundRobinSelect

SpecRoundRobin == InitRoundRobin /\ [][NextRoundRobin]_vars

\* the indices of the enabled accounts that are not rate-limited
Filtered ==
    {k - 1 : k \in {j \in 1..Len(accounts) :
                       /\ accounts[j].enabled
                       /\ \/ accounts[j].rateLimitResetTime = 0
                          \/ now >= accounts[j].rateLimitResetTime}}
Lowest(S) == CHOOSE i \in S : \A j \in S : i <= j
\* the element after index i in circular order within S
CircularNext(S, i) ==
    IF \E j \in S : j > i THEN Lowest({j \in S : j > i}) ELSE Lowest(S)

\* C32: under round-robin selectAccount returns, while some account is
\* enabled and not rate-limited, only such an account: the one immediately
\* after activeIndex in circular order within the filtered set, or the first
\* of the filtered set when activeIndex is null or not in it; and with an
\* unchanged pool no account is returned twice within as many consecutive
\* calls as there are available accounts, so every available account is
\* visited before one repeats.
C32_RoundRobin ==
    /\ [][(Filtered # {} /\ Len(calls') = Len(calls) + 1) =>
             /\ selected' \in Filtered
             /\ (activeIndex = NULL \/ activeIndex \notin Filtered) =>
                   selected' = Lowest(Filtered)
             /\ (activeIndex # NULL /\ activeIndex \in Filtered) =>
                   selected' = CircularNext(Filtered, activeIndex)]_vars
    /\ [](\A i, j \in 1..Len(calls) :
             (i < j /\ j - i < Cardinality(Filtered)) => calls[i] # calls[j])
\* three available accounts of four, starting from the unavailable one: the
\* three were visited in order and the fourth call came back to the first
C32_Witness ==
    /\ Len(accounts) = 4
    /\ Filtered = {0, 2, 3}
    /\ calls = <<0, 2, 3, 0>>

(***************************************************************************)
(* DEBOUNCED SAVE HARNESS: recordSuccess, markRateLimited and              *)
(* recordFailure calls on a loaded manager, the timers scheduleSave arms   *)
(* and the writes saveToDisk starts.  `calls` holds the number of          *)
(* mutations so far (n), the armed timers, the handle in this.saveTimer    *)
(* (0: none), the writes in flight, each with the mutation count of its    *)
(* snapshot, and the mutation count of the snapshot on disk (diskN).       *)
(***************************************************************************)
MaxSaveOps == 3

\* scheduleSave: clearTimeout(this.saveTimer), then setTimeout(..., 1000)
armTimer(timers, handle, id, t) ==
    {x \in timers : x.id # handle} \cup {[id |-> id, due |-> scheduleSave(t)]}

\* the bookkeeping of one record_* call: one more mutation, scheduleSave()
Scheduled(c, t) ==
    [c EXCEPT !.n = @ + 1,
              !.timers = armTimer(c.timers, c.handle, c.n + 1, t),
              !.handle = c.n + 1]

InitSave ==
    /\ now = InitNow
    /\ strategy \in {"hybrid", "sticky"}
    /\ accounts = <<MgrStored(11, TRUE, TRUE, 0, 0), MgrStored(12, TRUE, TRUE, 4, 0)>>
    /\ activeIndex = 0
    /\ scores = <<>>
    /\ buckets = <<>>
    /\ saveTimer = 0
    /\ disk = saveToDiskSnapshot(accounts, activeIndex)
    /\ ticks = 0
    /\ req = <<>>
    /\ metrics = <<>>
    /\ currentIndex = NULL
    /\ selected = PENDING
    /\ loaded = TRUE
    /\ calls = [n |-> 0, timers |-> {}, handle |-> 0, writes |-> {}, diskN |-> 0]

SaveRecordSuccess(i) ==
    /\ calls.n < MaxSaveOps
    /\ accounts' = recordSuccessAccounts(accounts, now, i)
    /\ scores' = healthRecordSuccess(scores, now, i)
    /\ buckets' = consume(buckets, now, i, 1)
    /\ saveTimer' = scheduleSave(now)
    /\ calls' = Scheduled(calls, now)
    /\ UNCHANGED <<now, strategy, activeIndex, disk, ticks, req, selVars, loaded>>

SaveMarkRateLimited(i) ==
    /\ calls.n < MaxSaveOps
    /\ \E reason \in {"RATE_LIMIT_EXCEEDED", "SERVER_ERROR"} :
          accounts' = markRateLimitedAccounts(accounts, now, i, reason)
    /\ scores' = healthRecordRateLimit(scores, now, i)
    /\ saveTimer' = scheduleSave(now)
    /\ calls' = Scheduled(calls, now)
    /\ UNCHANGED <<now, buckets, strategy, activeIndex, disk, ticks, req, selVars, loaded>>

SaveRecordFailure(i) ==
    /\ calls.n < MaxSaveOps
    /\ accounts' = recordFailureAccounts(accounts, i)
    /\ scores' = healthRecordFailure(scores, now, i)
    /\ saveTimer' = scheduleSave(now)
    /\ calls' = Scheduled(calls, now)
    /\ UNCHANGED <<now, buckets, strategy, activeIndex, disk, ticks, req, selVars, loaded>>

\* the clock advances toward the due time of an armed timer
SaveTick ==
    /\ \E x \in calls.timers : now < x.due
    /\ now' = now + SaveDelay
    /\ UNCHANGED <<buckets, mgrVars, ioVars, selVars, loadVars>>

\* a due timer fires: saveToDisk takes its snapshot and starts the write
SaveFire ==
    /\ \E x \in calls.timers :
          /\ now >= x.due
          /\ calls' = [calls EXCEPT
                          !.timers = @ \ {x},
                          !.writes = @ \cup {[n |-> calls.n,
                                             storage |-> saveToDiskSnapshot(accounts, activeIndex)]}]
    /\ saveTimer' = IF calls'.timers = {} THEN 0 ELSE saveTimer
    /\ UNCHANGED <<now, buckets, mgrVars, disk, ticks, req, selVars, loaded>>

\* saveAccounts: the rename of a write in flight lands
SaveRenamed ==
    /\ \E w \in calls.writes :
          /\ disk' = w.storage
          /\ calls' = [calls EXCEPT !.writes = @ \ {w}, !.diskN = w.n]
    /\ UNCHANGED <<now, buckets, mgrVars, saveTimer, ticks, req, selVars, loaded>>

NextSave ==
    \/ \E i \in 0..(Len(accounts) - 1) : SaveRecordSuccess(i)
    \/ \E i \in 0..(Len(accounts) - 1) : SaveMarkRateLimited(i)
    \/ \E i \in 0..(Len(accounts) - 1) : SaveRecordFailure(i)
    \/ SaveTick
    \/ SaveFire
    \/ SaveRenamed

\* timers fire once due and file operations complete; a caller may stop
\* calling record_* at any point
SpecSave ==
    /\ InitSave
    /\ [][NextSave]_vars
    /\ WF_vars(SaveTick)
    /\ WF_vars(SaveFire)
    /\ WF_vars(SaveRenamed)

\* C33: at most one debounced save is pending at any time; each schedule
\* call cancels the pending timer and arms one SaveDelay (1 s) out; a timer
\* that fires starts a write of the manager's state as it is when it fires;
\* and once the record_* calls stop, the state after the last of them is
\* eventually on disk (the file holds the snapshot taken after the last
\* mutation unless a further mutation follows).
C33_AsStated ==
    /\ [](Cardinality(calls.timers) <= 1)
    /\ [][calls'.n = calls.n + 1 =>
             calls'.timers = {[id |-> calls'.handle, due |-> now + 1]}]_vars
    /\ [][\A w \in calls'.writes \ calls.writes :
             w.storage = saveToDiskSnapshot(accounts', activeIndex')]_vars
    /\ [](calls.diskN = calls.n => disk = saveToDiskSnapshot(accounts, activeIndex))
    /\ \A k \in 1..MaxSaveOps :
          (calls.n = k) ~> (calls.n > k \/ calls.diskN = k)

(***************************************************************************)
(* STORAGE FILE HARNESS: loadAccounts applied to a file content drawn from *)
(* a bounded set.  A content is [kind, accounts, activeIndex]: the file is *)
(* absent, unreadable, not JSON, JSON null, an object without an accounts  *)
(* array, or an object with one.  An entry of the array is [isObject,      *)
(* tokenType, refreshToken, lastUsed, email]; a string refreshToken is a   *)
(* number, 0 standing for the empty string.  activeIndex is [type, value]. *)
(***************************************************************************)
MaxEntries == 3
FileKinds == {"absent", "unreadable", "not-json", "null", "no-array", "storage"}
EntryChoices ==
    {[isObject |-> FALSE, tokenType |-> "undefined", refreshToken |-> 0, lastUsed |-> 0, email |-> 0],
     [isObject |-> TRUE, tokenType |-> "undefined", refreshToken |-> 0, lastUsed |-> 9, email |-> 1],
     [isObject |-> TRUE, tokenType |-> "number", refreshToken |-> 11, lastUsed |-> 9, email |-> 2],
     [isObject |-> TRUE, tokenType |-> "string", refreshToken |-> 0, lastUsed |-> 9, email |-> 3],
     [isObject |-> TRUE, tokenType |-> "string", refreshToken |-> 11, lastUsed |-> 5, email |-> 4],
     [isObject |-> TRUE, tokenType |-> "string", refreshToken |-> 11, lastUsed |-> 7, email |-> 5],
     [isObject |-> TRUE, tokenType |-> "string", refreshToken |-> 11, lastUsed |-> 7, email |-> 6],
     [isObject |-> TRUE, tokenType |-> "string", refreshToken |-> 12, lastUsed |-> 3, email |-> 7]}
ActiveIndexChoices ==
    {[type |-> "undefined", value |-> 0], [type |-> "string", value |-> 1],
     [type |-> "number", value |-> -1], [type |-> "number", value |-> 0],
     [type |-> "number", value |-> 1], [type |-> "number", value |-> 7]}
FileContents ==
    {[kind |-> k, accounts |-> <<>>, activeIndex |-> [type |-> "undefined", value |-> 0]] :
        k \in FileKinds \ {"storage"}}
    \cup UNION {{[kind |-> "storage", accounts |-> a, activeIndex |-> x] :
                    a \in [1..n -> EntryChoices], x \in ActiveIndexChoices} :
                n \in 0..MaxEntries}

createEmptyStorage == [accounts |-> <<>>, activeIndex |-> 0]

\* variant: the filter accepts an empty refreshToken string
IsValidEntryAnyString(a) == a.isObject /\ a.tokenType = "string"

\* the filter of loadAccounts
IsValidEntry(a) ==
    /\ a.isObject
    /\ a.tokenType = "string"
    /\ a.refreshToken # 0

\* loadAccounts on a file content
loadAccountsFile(content) ==
    IF content.kind # "storage" THEN createEmptyStorage
    ELSE LET validAccounts == SelectSeq(content.accounts, IsValidEntry)
             deduped == deduplicateAccounts(validAccounts)
             activeIndex0 == IF content.activeIndex.type = "number"
                             THEN content.activeIndex.value ELSE 0
         IN  [accounts |-> deduped,
              activeIndex |-> IF Len(deduped) > 0
                              THEN Min(Max(activeIndex0, 0), Len(deduped) - 1)
                              ELSE 0]

InitFile ==
    /\ now = InitNow
    /\ strategy = "hybrid"
    /\ accounts = <<>>
    /\ activeIndex = NULL
    /\ scores = <<>>
    /\ buckets = <<>>
    /\ saveTimer = 0
    /\ disk = createEmptyStorage
    /\ ticks = 0
    /\ req = <<>>
    /\ metrics = <<>>
    /\ currentIndex = NULL
    /\ selected = PENDING
    /\ loaded = FALSE
    /\ \E c \in FileContents :
          calls = [stage |-> "input", content |-> c, result |-> createEmptyStorage]

LoadFile ==
    /\ calls.stage = "input"
    /\ calls' = [calls EXCEPT !.stage = "loaded",
                              !.result = loadAccountsFile(calls.content)]
    /\ UNCHANGED <<now, buckets, mgrVars, ioVars, selVars, loaded>>

NextFile == LoadFile

SpecFile == InitFile /\ [][NextFile]_vars

\* the entries of the file that carry a non-empty string refreshToken
ValidEntries(content) ==
    {k \in 1..Len(content.accounts) :
        /\ content.accounts[k].isObject
        /\ content.accounts[k].tokenType = "string"
        /\ content.accounts[k].refreshToken > 0}

\* C34: loadAccounts returns the empty storage with activeIndex 0 for an
\* absent, unreadable or non-conforming file; otherwise every returned
\* account is an entry of the file with a non-empty string refreshToken, no
\* two returned accounts share a refreshToken, every such entry of the file
\* is represented by the returned account with its refreshToken, whose
\* lastUsed is the greatest among the entries sharing it, and activeIndex
\* is the file's value clamped into [0, length - 1] (0 when it is not a
\* number or nothing is left).
C34_Load ==
    calls.stage = "loaded" =>
       LET c == calls.content
           r == calls.result
           n == Len(r.accounts)
       IN  /\ c.kind # "storage" => r = [accounts |-> <<>>, activeIndex |-> 0]
           /\ c.kind = "storage" =>
                 /\ \A i \in 1..n :
                       \E k \in ValidEntries(c) : r.accounts[i] = c.accounts[k]
                 /\ \A i, j \in 1..n :
                       r.accounts[i].refreshToken = r.accounts[j].refreshToken => i = j
                 /\ \A k \in ValidEntries(c) :
                       \E i \in 1..n :
                          /\ r.accounts[i].refreshToken = c.accounts[k].refreshToken
                          /\ r.accounts[i].lastUsed >= c.accounts[k].lastUsed
                 /\ n = 0 => r.activeIndex = 0
                 /\ n > 0 =>
                       /\ r.activeIndex \in 0..(n - 1)
                       /\ LET v == c.activeIndex.value
                          IN  CASE c.activeIndex.type # "number" -> r.activeIndex = 0
                                [] v < 0 -> r.activeIndex = 0
                                [] v > n - 1 -> r.activeIndex = n - 1
                                [] OTHER -> r.activeIndex = v
\* a file with an invalid entry, two entries sharing a refreshToken and an
\* activeIndex beyond the end was loaded
C34_Witness ==
    /\ calls.stage = "loaded"
    /\ Len(calls.content.accounts) = 3
    /\ Len(calls.result.accounts) = 1
    /\ Cardinality(ValidEntries(calls.content)) = 2
    /\ calls.content.accounts[2].lastUsed < calls.content.accounts[3].lastUsed
    /\ calls.result.accounts[1] = calls.content.accounts[3]
    /\ calls.content.activeIndex.value = 7
    /\ calls.result.activeIndex = 0

\* ---- facts about one application of normalizeOrphanedToolOutputs ----
\* some item of the input with a type in `types` carries call id `id`
HasCall(types, id) ==
    \E j \in 1..Len(calls.input) :
       /\ calls.input[j].type \in types
       /\ Trim(calls.input[j].call_id) = id
\* item k left the repair as an assistant message in place of a tool output
Rewritten(k) ==
    /\ calls.once[k].type = "message"
    /\ calls.once[k].role = "assistant"
    /\ calls.once[k] # calls.input[k]
\* the call types an output type is matched against, as the claim names them
StatedCallTypes(t) ==
    CASE t = "function_call_output" -> {"function_call"}
      [] t = "local_shell_call_output" -> {"local_shell_call"}
      [] t = "custom_tool_call_output" -> {"custom_tool_call"}
      [] OTHER -> {}
\* the call types an output type is matched against: a function_call_output
\* is also accepted for a local_shell_call
AcceptedCallTypes(t) ==
    IF t = "function_call_output" THEN {"function_call", "local_shell_call"}
    ELSE StatedCallTypes(t)

\* C35 (as stated): a *_call_output item is rewritten into an assistant
\* message exactly when its call_id is missing or is not the call_id of a
\* call item of the matching type (function_call for function_call_output,
\* local_shell_call for local_shell_call_output, custom_tool_call for
\* custom_tool_call_output); every other item is unchanged and the sequence
\* keeps its length and order.
C35_AsStated ==
    calls.stage >= 1 =>
       /\ Len(calls.once) = Len(calls.input)
       /\ \A k \in 1..Len(calls.input) :
             LET item == calls.input[k]
                 orphan == /\ item.type \in OutputTypes
                           /\ \/ Trim(item.call_id) = ""
                              \/ ~HasCall(StatedCallTypes(item.type), Trim(item.call_id))
             IN  IF orphan THEN Rewritten(k) ELSE calls.once[k] = item

\* C35 (amended): as stated, except that a function_call_output is matched
\* against the call_ids of function_call and of local_shell_call items; call
\* ids are compared trimmed, a blank one counting as missing.
C35_OrphanRepair ==
    calls.stage >= 1 =>
       /\ Len(calls.once) = Len(calls.input)
       /\ \A k \in 1..Len(calls.input) :
             LET item == calls.input[k]
                 orphan == /\ item.type \in OutputTypes
                           /\ \/ Trim(item.call_id) = ""
                              \/ ~HasCall(AcceptedCallTypes(item.type), Trim(item.call_id))
             IN  IF orphan THEN Rewritten(k) ELSE calls.once[k] = item
\* a function_call_output whose call id belongs to a local_shell_call was
\* kept, next to a local_shell_call_output without a call that was rewritten
C35_Witness ==
    /\ calls.stage = 1
    /\ Len(calls.input) = 3
    /\ calls.input[1].type = "local_shell_call" /\ calls.input[1].call_id = "X"
    /\ calls.input[2].type = "function_call_output" /\ calls.input[2].call_id = "X"
    /\ calls.once[2] = calls.input[2]
    /\ calls.input[3].type = "custom_tool_call_output" /\ calls.input[3].call_id = "X"
    /\ Rewritten(3)

(***************************************************************************)
(* CONCURRENT REFRESH: two fetch invocations on a manager whose accounts   *)
(* hold no valid access token, so every invocation has to refresh before   *)
(* it sends.                                                               *)
(***************************************************************************)
InitRefresh ==
    /\ now = InitNow
    /\ strategy \in {"hybrid", "sticky", "round-robin"}
    /\ \E n \in 1..2 :
          accounts = [k \in 1..n |->
                         StoredAccount(k, CHOOSE st \in StoredChoices :
                                              /\ st.accessTokenExpires = 0
                                              /\ st.consecutiveFailures = 0)]
    /\ activeIndex = 0
    /\ scores = <<>>
    /\ buckets = <<>>
    /\ saveTimer = 0
    /\ disk = saveToDiskSnapshot(accounts, activeIndex)
    /\ ticks = 0
    /\ req = [r \in ConcRequests |-> IdleReq]
    /\ metrics = <<>>
    /\ currentIndex = NULL
    /\ selected = PENDING
    /\ loaded = TRUE
    /\ calls = <<>>

NextRefresh ==
    \/ \E r \in ConcRequests : FetchStart(r)
    \/ \E r \in ConcRequests : Transformed(r)
    \/ \E r \in ConcRequests : RefreshFailed(r)
    \/ \E r \in ConcRequests : RefreshSucceeded(r)
    \/ \E r \in ConcRequests : SendRejected(r)
    \/ \E r \in ConcRequests : ResponseOk(r)

SpecRefresh == InitRefresh /\ [][NextRefresh]_vars

\* C37: for any one account at most one token refresh is in flight at a
\* time: no two invocations wait for a refreshAccessToken call on the same
\* account, and none wait for calls made with the same refresh token.
C37_AsStated ==
    \A r1, r2 \in DOMAIN req :
       (r1 # r2 /\ req[r1].pc = "refreshing" /\ req[r2].pc = "refreshing") =>
          /\ req[r1].account # req[r2].account
          /\ req[r1].refreshToken # req[r2].refreshToken

\* ---- facts about the enabled flag across manager operations ----
\* the step is a manager call other than the restart of the process
OperationStep == calls' # calls /\ ~(calls'.op = "load" /\ calls'.n = calls.n + 1)

\* C38: a disabled account stays disabled under selectAccount, recordSuccess,
\* markRateLimited, recordFailure and ensureAccessToken; only an addAccount
\* call that matches the account (and returns its index) enables it again;
\* and selectAccount neither returns a disabled account nor makes it active.
C38_DisabledStays ==
    [][OperationStep =>
          \A k \in 1..Len(accounts) :
             ~accounts[k].enabled =>
                /\ Len(accounts') >= k
                /\ accounts'[k].enabled =>
                      /\ calls'.op = "addAccount"
                      /\ calls'.n = calls.n + 1
                      /\ calls'.result = k - 1
                /\ (calls'.op = "selectAccount" /\ calls'.n = calls.n + 1) =>
                      /\ calls'.result # k - 1
                      /\ activeIndex' = k - 1 => activeIndex = k - 1]_vars
\* recordSuccess was applied to a disabled account: its failure count is
\* reset and it is still disabled
C38_Witness ==
    /\ calls.op = "recordSuccess"
    /\ calls.index = 1
    /\ ~accounts[2].enabled
    /\ accounts[2].consecutiveFailures = 0
    /\ accounts[2].lastUsed = now

(***************************************************************************)
(* FETCH WITH USED BUCKETS: the fetch loop on a manager whose token bucket *)
(* tracker already holds an entry, as it does after earlier successes:     *)
(* account 0 has half a token left, or no entry yet (a full bucket).       *)
(***************************************************************************)
BucketStartChoices ==
    {<<>>, (0 :> [tokens |-> TokenScale \div 2, lastUpdated |-> InitNow])}

InitBucket ==
    /\ now = InitNow
    /\ strategy \in {"hybrid", "sticky"}
    /\ \E n \in 1..2 :
          /\ \E st \in [1..n -> {c \in StoredChoices : c.consecutiveFailures = 0}] :
                accounts = [k \in 1..n |-> StoredAccount(k, st[k])]
          /\ activeIndex = 0
    /\ scores = <<>>
    /\ buckets \in BucketStartChoices
    /\ saveTimer = 0
    /\ disk = saveToDiskSnapshot(accounts, activeIndex)
    /\ ticks = 0
    /\ req = [r \in Requests |-> IdleReq]
    /\ metrics = <<>>
    /\ currentIndex = NULL
    /\ selected = PENDING
    /\ loaded = TRUE
    /\ calls = <<>>

SpecBucket == InitBucket /\ [][Next]_vars

\* the step in which invocation r handles an OK response
OkStep(r) == ReceiveStep(r) /\ req'[r].branch = "ok"
\* only the bucket of account a may differ between the two trackers
OnlyBucketOf(a) ==
    /\ DOMAIN buckets' \subseteq DOMAIN buckets \cup {a}
    /\ \A i \in DOMAIN buckets : i # a => (i \in DOMAIN buckets' /\ buckets'[i] = buckets[i])

\* C39 (as stated): a bucket changes only in the handling of an OK response,
\* which takes exactly one token from the bucket of the account that served
\* it and leaves the other buckets alone; every other step (rate-limit
\* response, 401, refresh failure, other status) leaves all buckets unchanged.
C39_AsStated ==
    [][/\ buckets' # buckets => \E r \in Requests : OkStep(r)
       /\ \A r \in Requests :
             OkStep(r) =>
                /\ getTokens(buckets', now, req[r].account)
                      = getTokens(buckets, now, req[r].account) - 1 * TokenScale
                /\ OnlyBucketOf(req[r].account)]_vars

\* C39 (amended): as stated, except that an OK response takes the token only
\* when the bucket of the serving account holds at least one; otherwise the
\* buckets are left unchanged.
C39_BucketFrame ==
    [][/\ buckets' # buckets => \E r \in Requests : OkStep(r)
       /\ \A r \in Requests :
             OkStep(r) =>
                IF getTokens(buckets, now, req[r].account) >= 1 * TokenScale
                THEN /\ getTokens(buckets', now, req[r].account)
                           = getTokens(buckets, now, req[r].account) - 1 * TokenScale
                     /\ OnlyBucketOf(req[r].account)
                ELSE buckets' = buckets]_vars
\* an invocation whose first attempt failed on account 0 succeeded on
\* account 1: account 1 paid one token, account 0's used bucket is as it was
C39_Witness ==
    /\ \E r \in Requests :
          /\ req[r].pc = "done"
          /\ req[r].branch = "ok"
          /\ req[r].attempt >= 1
          /\ req[r].account = 1
    /\ now = InitNow
    /\ 0 \in DOMAIN buckets /\ buckets[0].tokens = TokenScale \div 2
    /\ 1 \in DOMAIN buckets
    /\ buckets[1].tokens = (DEFAULT_TOKEN_BUCKET_CONFIG.initialTokens - 1) * TokenScale

\* C40: in every state the manager reaches from accounts without rate-limit
\* state, an account has a rateLimitReason exactly when it has a
\* rateLimitResetTime, in memory and in the storage file.
C40_ReasonIffResetTime ==
    /\ \A k \in 1..Len(accounts) :
          accounts[k].rateLimitReason = "NONE" <=> accounts[k].rateLimitResetTime = 0
    /\ \A k \in 1..Len(disk.accounts) :
          disk.accounts[k].rateLimitReason = "NONE"
             <=> disk.accounts[k].rateLimitResetTime = 0
\* an account that markRateLimited had marked was found expired by a
\* selectAccount call an hour later, which cleared both fields
C40_Witness ==
    /\ calls.op = "selectAccount"
    /\ now = InitNow + 3540
    /\ \E i \in DOMAIN scores :
          /\ scores[i].score = DEFAULT_HEALTH_CONFIG.initial
                                  + DEFAULT_HEALTH_CONFIG.rateLimitPenalty
          /\ scores[i].lastUpdated = InitNow
          /\ accounts[i + 1].rateLimitResetTime = 0
          /\ accounts[i + 1].rateLimitReason = "NONE"
          /\ accounts[i + 1].consecutiveFailures >= 1

====
